---- MODULE Spec2Model ----
(***************************************************************************)
(* fileVault: the encrypted blob codec (utils/encryptionUtils.ts) and the  *)
(* file controller that seals uploads and opens downloads                  *)
(* (class FileController), over a model of the storage bucket and of the   *)
(* files table the controller talks to.                                    *)
(*                                                                         *)
(* Bytes are integers 0..255, buffers are sequences of bytes, text is a    *)
(* sequence of one-character strings.  The cipher is AES-256-GCM as Node's *)
(* crypto module computes it, so that sealing and opening are computed,    *)
(* not assumed.                                                            *)
(***************************************************************************)
EXTENDS Integers, Sequences, FiniteSets, TLC

(***************************************************************************)
(* Byte arithmetic                                                         *)
(***************************************************************************)
\* xor of two integers below 2^k, bit by bit
RECURSIVE XorBits(_, _, _)
XorBits(a, b, k) ==
  IF k = 0 THEN 0
  ELSE ((a + b) % 2) + 2 * XorBits(a \div 2, b \div 2, k - 1)

\* a function over 1..n as a tuple whose elements are computed once
Tup(f) == f \o <<>>

\* xor of two bytes, tabulated once: XorTab[a + 1][b + 1]
XorTab ==
  Tup([a \in 1..256 |-> Tup([b \in 1..256 |-> XorBits(a - 1, b - 1, 8)])])

XorByte(a, b) == XorTab[a + 1][b + 1]

\* xor of two buffers of the same length
XorBuf(x, y) == Tup([i \in 1..Len(x) |-> XorByte(x[i], y[i])])

\* xor of two 16-byte blocks
Xor16(x, y) ==
  <<XorTab[x[1] + 1][y[1] + 1], XorTab[x[2] + 1][y[2] + 1],
    XorTab[x[3] + 1][y[3] + 1], XorTab[x[4] + 1][y[4] + 1],
    XorTab[x[5] + 1][y[5] + 1], XorTab[x[6] + 1][y[6] + 1],
    XorTab[x[7] + 1][y[7] + 1], XorTab[x[8] + 1][y[8] + 1],
    XorTab[x[9] + 1][y[9] + 1], XorTab[x[10] + 1][y[10] + 1],
    XorTab[x[11] + 1][y[11] + 1], XorTab[x[12] + 1][y[12] + 1],
    XorTab[x[13] + 1][y[13] + 1], XorTab[x[14] + 1][y[14] + 1],
    XorTab[x[15] + 1][y[15] + 1], XorTab[x[16] + 1][y[16] + 1]>>

Zeros(n) == Tup([i \in 1..n |-> 0])

\* big-endian encoding of n < 2^31 in k bytes
BigEndian(n, k) ==
  Tup([i \in 1..k |-> IF k - i >= 4 THEN 0 ELSE (n \div (256 ^ (k - i))) % 256])

(***************************************************************************)
(* AES-256 (FIPS 197), the block cipher behind ALGORITHM                   *)
(***************************************************************************)
SBox ==
<<
    99, 124, 119, 123, 242, 107, 111, 197,  48,   1, 103,  43, 254, 215, 171, 118,
   202, 130, 201, 125, 250,  89,  71, 240, 173, 212, 162, 175, 156, 164, 114, 192,
   183, 253, 147,  38,  54,  63, 247, 204,  52, 165, 229, 241, 113, 216,  49,  21,
     4, 199,  35, 195,  24, 150,   5, 154,   7,  18, 128, 226, 235,  39, 178, 117,
     9, 131,  44,  26,  27, 110,  90, 160,  82,  59, 214, 179,  41, 227,  47, 132,
    83, 209,   0, 237,  32, 252, 177,  91, 106, 203, 190,  57,  74,  76,  88, 207,
   208, 239, 170, 251,  67,  77,  51, 133,  69, 249,   2, 127,  80,  60, 159, 168,
    81, 163,  64, 143, 146, 157,  56, 245, 188, 182, 218,  33,  16, 255, 243, 210,
   205,  12,  19, 236,  95, 151,  68,  23, 196, 167, 126,  61, 100,  93,  25, 115,
    96, 129,  79, 220,  34,  42, 144, 136,  70, 238, 184,  20, 222,  94,  11, 219,
   224,  50,  58,  10,  73,   6,  36,  92, 194, 211, 172,  98, 145, 149, 228, 121,
   231, 200,  55, 109, 141, 213,  78, 169, 108,  86, 244, 234, 101, 122, 174,   8,
   186, 120,  37,  46,  28, 166, 180, 198, 232, 221, 116,  31,  75, 189, 139, 138,
   112,  62, 181, 102,  72,   3, 246,  14,  97,  53,  87, 185, 134, 193,  29, 158,
   225, 248, 152,  17, 105, 217, 142, 148, 155,  30, 135, 233, 206,  85,  40, 223,
   140, 161, 137,  13, 191, 230,  66, 104,  65, 153,  45,  15, 176,  84, 187,  22 >>

SubByte(b) == SBox[b + 1]

\* multiplication by x in GF(2^8) modulo x^8 + x^4 + x^3 + x + 1
XTime(a) == IF a < 128 THEN 2 * a ELSE XorByte((2 * a) % 256, 27)

\* 2a and 3a in GF(2^8), tabulated once: Mul2[a + 1], Mul3[a + 1]
Mul2 == Tup([a \in 1..256 |-> XTime(a - 1)])
Mul3 == Tup([a \in 1..256 |-> XorByte(XTime(a - 1), a - 1)])

Xor4(a, b, c, d) == XorByte(XorByte(a, b), XorByte(c, d))

\* the state is 16 bytes, column by column: byte r of column c is s[4c + r + 1]
SubBytes(s) ==
  <<SBox[s[1] + 1], SBox[s[2] + 1], SBox[s[3] + 1], SBox[s[4] + 1],
    SBox[s[5] + 1], SBox[s[6] + 1], SBox[s[7] + 1], SBox[s[8] + 1],
    SBox[s[9] + 1], SBox[s[10] + 1], SBox[s[11] + 1], SBox[s[12] + 1],
    SBox[s[13] + 1], SBox[s[14] + 1], SBox[s[15] + 1], SBox[s[16] + 1]>>

\* row r is rotated left by r columns
ShiftRows(s) ==
  <<s[1], s[6], s[11], s[16],
    s[5], s[10], s[15], s[4],
    s[9], s[14], s[3], s[8],
    s[13], s[2], s[7], s[12]>>

\* each column is multiplied by the matrix (2 3 1 1 / 1 2 3 1 / 1 1 2 3 / 3 1 1 2)
MixColumns(s) ==
  <<Xor4(Mul2[s[1] + 1], Mul3[s[2] + 1], s[3], s[4]),
    Xor4(Mul2[s[2] + 1], Mul3[s[3] + 1], s[4], s[1]),
    Xor4(Mul2[s[3] + 1], Mul3[s[4] + 1], s[1], s[2]),
    Xor4(Mul2[s[4] + 1], Mul3[s[1] + 1], s[2], s[3]),
    Xor4(Mul2[s[5] + 1], Mul3[s[6] + 1], s[7], s[8]),
    Xor4(Mul2[s[6] + 1], Mul3[s[7] + 1], s[8], s[5]),
    Xor4(Mul2[s[7] + 1], Mul3[s[8] + 1], s[5], s[6]),
    Xor4(Mul2[s[8] + 1], Mul3[s[5] + 1], s[6], s[7]),
    Xor4(Mul2[s[9] + 1], Mul3[s[10] + 1], s[11], s[12]),
    Xor4(Mul2[s[10] + 1], Mul3[s[11] + 1], s[12], s[9]),
    Xor4(Mul2[s[11] + 1], Mul3[s[12] + 1], s[9], s[10]),
    Xor4(Mul2[s[12] + 1], Mul3[s[9] + 1], s[10], s[11]),
    Xor4(Mul2[s[13] + 1], Mul3[s[14] + 1], s[15], s[16]),
    Xor4(Mul2[s[14] + 1], Mul3[s[15] + 1], s[16], s[13]),
    Xor4(Mul2[s[15] + 1], Mul3[s[16] + 1], s[13], s[14]),
    Xor4(Mul2[s[16] + 1], Mul3[s[13] + 1], s[14], s[15])>>

\* round constants of the key schedule, rcon[i] = x^(i-1)
Rcon == <<1, 2, 4, 8, 16, 32, 64>>

Word(w, i) == SubSeq(w, 4 * i + 1, 4 * i + 4)
SubWord(x) == Tup([j \in 1..4 |-> SubByte(x[j])])
RotWord(x) == <<x[2], x[3], x[4], x[1]>>

\* the eight key words that follow the eight words k, with round constant rc
NextKeyWords(k, rc) ==
  LET g  == SubWord(RotWord(Word(k, 7)))
      w0 == XorBuf(Word(k, 0), <<XorByte(g[1], rc), g[2], g[3], g[4]>>)
      w1 == XorBuf(Word(k, 1), w0)
      w2 == XorBuf(Word(k, 2), w1)
      w3 == XorBuf(Word(k, 3), w2)
      w4 == XorBuf(Word(k, 4), SubWord(w3))
      w5 == XorBuf(Word(k, 5), w4)
      w6 == XorBuf(Word(k, 6), w5)
      w7 == XorBuf(Word(k, 7), w6)
  IN  w0 \o w1 \o w2 \o w3 \o w4 \o w5 \o w6 \o w7

RECURSIVE ExpandFrom(_, _)
ExpandFrom(w, r) ==
  IF Len(w) >= 240 THEN SubSeq(w, 1, 240)
  ELSE ExpandFrom(w \o NextKeyWords(SubSeq(w, Len(w) - 31, Len(w)), Rcon[r]), r + 1)

\* the expanded key as 240 bytes (60 words, 15 round keys), from a 32-byte key
KeyExpansion(key) == ExpandFrom(key, 1)

RoundKey(w, r) == SubSeq(w, 16 * r + 1, 16 * r + 16)

\* rounds r..14 on state s; the last round has no MixColumns
RECURSIVE Rounds(_, _, _)
Rounds(s, w, r) ==
  IF Len(s) = 16 /\ r < 14
  THEN Rounds(Xor16(MixColumns(ShiftRows(SubBytes(s))), RoundKey(w, r)), w, r + 1)
  ELSE Xor16(ShiftRows(SubBytes(s)), RoundKey(w, 14))

\* one block under the expanded key w
AesBlock(w, block) == Rounds(Xor16(block, RoundKey(w, 0)), w, 1)

(***************************************************************************)
(* GCM (NIST SP 800-38D)                                                   *)
(***************************************************************************)
\* v * x in GF(2^128): v shifted right by one bit as a 128-bit big-endian
\* string, and reduced by R = 11100001 || 0^120 when a bit fell off
MulX(v) ==
  <<XorTab[(v[1] \div 2) + 1][(v[16] % 2) * 225 + 1],
    (v[2] \div 2) + 128 * (v[1] % 2),
    (v[3] \div 2) + 128 * (v[2] % 2),
    (v[4] \div 2) + 128 * (v[3] % 2),
    (v[5] \div 2) + 128 * (v[4] % 2),
    (v[6] \div 2) + 128 * (v[5] % 2),
    (v[7] \div 2) + 128 * (v[6] % 2),
    (v[8] \div 2) + 128 * (v[7] % 2),
    (v[9] \div 2) + 128 * (v[8] % 2),
    (v[10] \div 2) + 128 * (v[9] % 2),
    (v[11] \div 2) + 128 * (v[10] % 2),
    (v[12] \div 2) + 128 * (v[11] % 2),
    (v[13] \div 2) + 128 * (v[12] % 2),
    (v[14] \div 2) + 128 * (v[13] % 2),
    (v[15] \div 2) + 128 * (v[14] % 2),
    (v[16] \div 2) + 128 * (v[15] % 2)>>

\* t followed by the next k multiples by x of its last block
RECURSIVE Shifts(_, _)
Shifts(t, k) ==
  IF Len(t) > 0 /\ k > 0 THEN Shifts(Append(t, MulX(t[Len(t)])), k - 1) ELSE t

\* the 128 blocks h, hx, ..., hx^127: entry 8j + k + 1 is what bit k (0 =
\* leftmost) of byte j + 1 of a multiplier contributes to its product with h
RECURSIVE MulTableFrom(_)
MulTableFrom(t) ==
  IF Len(t) < 128 THEN MulTableFrom(Shifts(t, 8)) ELSE SubSeq(t, 1, 128)

MulTable(h) == MulTableFrom(<<h>>)

\* the blocks of the table selected by the bits of byte yb, xored into z
RECURSIVE MulByte(_, _, _, _, _)
MulByte(z, t, j, yb, k) ==
  IF Len(z) = 16 /\ k < 8
  THEN MulByte(IF (yb \div (2 ^ (7 - k))) % 2 = 1 THEN Xor16(z, t[8 * j + k + 1]) ELSE z,
               t, j, yb, k + 1)
  ELSE z

RECURSIVE MulFrom(_, _, _, _)
MulFrom(z, t, y, j) ==
  IF Len(z) = 16 /\ j < 16
  THEN MulFrom(MulByte(z, t, j, y[j + 1], 0), t, y, j + 1)
  ELSE z

\* the product in GF(2^128) of block y and the block h whose table is t
GfMul(t, y) == MulFrom(Zeros(16), t, y, 0)

\* a buffer padded with zero bytes to a whole number of blocks
PadBlocks(x) == x \o Zeros((16 - (Len(x) % 16)) % 16)

\* GHASH of the whole blocks x under the hash key whose table is t
RECURSIVE GHashFrom(_, _, _, _)
GHashFrom(t, y, x, k) ==
  IF Len(y) = 16 /\ 16 * k < Len(x)
  THEN GHashFrom(t, GfMul(t, Xor16(y, SubSeq(x, 16 * k + 1, 16 * k + 16))), x, k + 1)
  ELSE y

GHash(t, x) == GHashFrom(t, Zeros(16), x, 0)

\* the pre-counter block J0 of an IV of 1 to 128 bytes
PreCounter(t, iv) ==
  IF Len(iv) = 12
  THEN iv \o <<0, 0, 0, 1>>
  ELSE GHash(t, PadBlocks(iv) \o Zeros(8) \o BigEndian(8 * Len(iv), 8))

\* the counter block n steps after cb (the last 32 bits count, modulo 2^32)
Inc32(cb, n) ==
  LET lo == cb[15] * 256 + cb[16]
      hi == cb[13] * 256 + cb[14]
      lo2 == lo + n
      hi2 == (hi + (lo2 \div 65536)) % 65536
  IN  SubSeq(cb, 1, 12) \o BigEndian(hi2, 2) \o BigEndian(lo2 % 65536, 2)

\* counter mode from J0: byte i is xored with byte i of E(J0+1), E(J0+2), ...
RECURSIVE KeyStreamFrom(_, _, _, _)
KeyStreamFrom(w, j0, k, n) ==
  IF 16 * (k - 1) >= n THEN <<>>
  ELSE AesBlock(w, Inc32(j0, k)) \o KeyStreamFrom(w, j0, k + 1, n)

Gctr(w, j0, data) ==
  IF Len(data) = 0 THEN <<>>
  ELSE XorBuf(data, SubSeq(KeyStreamFrom(w, j0, 1, Len(data)), 1, Len(data)))

\* the full 16-byte tag over a ciphertext, with no associated data
GcmTag(w, t, j0, ct) ==
  Xor16(AesBlock(w, j0),
        GHash(t, PadBlocks(ct) \o BigEndian(0, 8) \o BigEndian(8 * Len(ct), 8)))

(***************************************************************************)
(* Text and buffers as Node converts between them                          *)
(***************************************************************************)
\* a value that may be absent (undefined, null): text or nothing
Null == [some |-> FALSE, val |-> <<>>]
Some(v) == [some |-> TRUE, val |-> v]

\* JavaScript truthiness of an optional text: present and not the empty string
Truthy(x) == x.some /\ Len(x.val) > 0

HexLower == <<"0", "1", "2", "3", "4", "5", "6", "7",
              "8", "9", "a", "b", "c", "d", "e", "f">>
HexUpper == <<"0", "1", "2", "3", "4", "5", "6", "7",
              "8", "9", "A", "B", "C", "D", "E", "F">>

\* buf.toString('hex'): two lowercase digits per byte
RECURSIVE ToHex(_)
ToHex(buf) ==
  IF Len(buf) = 0 THEN <<>>
  ELSE <<HexLower[(buf[1] \div 16) + 1], HexLower[(buf[1] % 16) + 1]>>
         \o ToHex(Tail(buf))

\* the value of a hex digit of either case, -1 for any other character
Unhex(c) ==
  IF \E i \in 1..16 : HexLower[i] = c
  THEN (CHOOSE i \in 1..16 : HexLower[i] = c) - 1
  ELSE IF \E i \in 1..16 : HexUpper[i] = c
  THEN (CHOOSE i \in 1..16 : HexUpper[i] = c) - 1
  ELSE -1

\* Buffer.from(text, 'hex'): whole pairs of digits, up to the first pair that
\* holds a character that is no hex digit; an odd last character is dropped
FromHex(text) ==
  LET pairs == Len(text) \div 2
      whole(k) == Unhex(text[2 * k - 1]) >= 0 /\ Unhex(text[2 * k]) >= 0
      n == IF \A k \in 1..pairs : whole(k) THEN pairs
           ELSE (CHOOSE k \in 1..pairs : ~whole(k) /\ \A j \in 1..(k - 1) : whole(j)) - 1
  IN  Tup([k \in 1..n |-> 16 * Unhex(text[2 * k - 1]) + Unhex(text[2 * k])])

\* Buffer.from(text): UTF-8, text given as UTF-16 code units below the
\* surrogate range
RECURSIVE Utf8(_)
Utf8(text) ==
  IF Len(text) = 0 THEN <<>>
  ELSE LET c == text[1]
           enc == IF c < 128 THEN <<c>>
                  ELSE IF c < 2048 THEN <<192 + (c \div 64), 128 + (c % 64)>>
                  ELSE <<224 + (c \div 4096), 128 + ((c \div 64) % 64), 128 + (c % 64)>>
       IN  enc \o Utf8(Tail(text))

\* buf.slice(0, n)
Slice(buf, n) == SubSeq(buf, 1, IF Len(buf) < n THEN Len(buf) ELSE n)

(***************************************************************************)
(* State                                                                   *)
(***************************************************************************)
VARIABLES
  env,             \* process.env.ENCRYPTION_KEY: optional text, as code units
  loaded,          \* encryptionUtils: "no" (not imported), "yes", "threw"
  ENCRYPTION_KEY,  \* the module constant, read from env when the module loads
  seals,           \* the encryptFile calls made directly: input, nonce drawn, result
  opened,          \* the last decryptFile call made directly: arguments and result
  storage,         \* the bucket 'file-vault': path -> bytes
  files,           \* the table 'files': a set of rows
  folders,         \* the table 'folders': a set of rows
  nextId,          \* the id the database gives to the next row inserted
  now,             \* the clock Date.now() reads
  served,          \* how many requests the controller has answered
  uploads,         \* history: what each successful upload was given and stored
  last,            \* the request being answered and its response
  nextFolderId,    \* the id the database gives to the next folder inserted
  reqs,            \* the requests that have come in, in the order they came; NoReq once answered
  flights,         \* calls in progress: arguments, position, locals, result
  slots,           \* the cipher objects the calls in progress have created
  session,         \* supabaseClient: the access token of the session it holds
  accounts,        \* the auth provider: the password of each address that has an account
  dotfile,         \* the ENCRYPTION_KEY line of the .env file: optional text
  boot             \* the entry point: "start", "importing", "configured", "listening", "exited"

\* the process: its environment, its modules and its entry point
codecVars == <<env, loaded, ENCRYPTION_KEY, session, accounts, dotfile, boot>>
callVars == <<seals, opened, flights, slots>>
storeVars == <<storage, files, folders, nextId, nextFolderId>>
ctrlVars == <<storage, files, folders, nextId, nextFolderId, now, served, uploads, last, reqs>>
\* the accounts of the auth provider at the start: email and password
Accounts == (<<"u">> :> <<"p">>) @@ (<<"v">> :> <<"q">>)

vars == <<env, loaded, ENCRYPTION_KEY, session, accounts, dotfile, boot, seals, opened,
          flights, slots, storage, files, folders, nextId, nextFolderId, now, served, uploads, last, reqs>>

(***************************************************************************)
(* utils/encryptionUtils.ts                                                *)
(***************************************************************************)
\* the check made when the module is evaluated: true when the import throws
KeyRejected_unset(k) == ~Truthy(k)

KeyRejected(k) == ~Truthy(k) \/ Len(k.val) < 32

\* import of the module: reads the environment once, throws on a bad key
LoadCodec ==
  /\ loaded = "no"
  /\ ENCRYPTION_KEY' = env
  /\ loaded' = IF KeyRejected(env) THEN "threw" ELSE "yes"
  /\ UNCHANGED <<env, session, accounts, dotfile, boot, callVars, ctrlVars>>

\* a key taken from the environment at the time of the call
KeyBytes_fromEnv == Slice(Utf8(env.val), 32)

\* Buffer.from(ENCRYPTION_KEY).slice(0, 32)
KeyBytes == Slice(Utf8(ENCRYPTION_KEY.val), 32)

\* the tag lengths setAuthTag accepts for GCM when createDecipheriv was given
\* no authTagLength, as here
TagLengths == {4, 8, 12, 13, 14, 15, 16}

Threw == [threw |-> TRUE, encryptedData |-> <<>>, iv |-> <<>>, authTag |-> <<>>]

\* encryptFile with the tag computed over the plaintext
encryptFile_tagOfPlain(buffer, rnd) ==
  IF Len(KeyBytes) # 32 THEN Threw
  ELSE LET w == KeyExpansion(KeyBytes)
           t == MulTable(AesBlock(w, Zeros(16)))
           j0 == PreCounter(t, rnd)
       IN  [threw |-> FALSE,
            encryptedData |-> Gctr(w, j0, buffer),
            iv |-> ToHex(rnd),
            authTag |-> ToHex(GcmTag(w, t, j0, buffer))]

\* encryptFile with a nonce that is the same in every call
encryptFile_fixedIv(buffer, rnd) ==
  IF Len(KeyBytes) # 32 THEN Threw
  ELSE LET w == KeyExpansion(KeyBytes)
           t == MulTable(AesBlock(w, Zeros(16)))
           j0 == PreCounter(t, Zeros(16))
           encryptedData == Gctr(w, j0, buffer)
       IN  [threw |-> FALSE,
            encryptedData |-> encryptedData,
            iv |-> ToHex(Zeros(16)),
            authTag |-> ToHex(GcmTag(w, t, j0, encryptedData))]

\* encryptFile that returns the tag after the ciphertext, in one buffer
encryptFile_tagAppended(buffer, rnd) ==
  IF Len(KeyBytes) # 32 THEN Threw
  ELSE LET w == KeyExpansion(KeyBytes)
           t == MulTable(AesBlock(w, Zeros(16)))
           j0 == PreCounter(t, rnd)
           encryptedData == Gctr(w, j0, buffer)
           authTag == GcmTag(w, t, j0, encryptedData)
       IN  [threw |-> FALSE,
            encryptedData |-> encryptedData \o authTag,
            iv |-> ToHex(rnd),
            authTag |-> ToHex(authTag)]

\* encryptFile(buffer); rnd is what crypto.randomBytes(16) returns in this call.
\* createCipheriv throws on a key that is not 32 bytes.
encryptFile(buffer, rnd) ==
  IF Len(KeyBytes) # 32 THEN Threw
  ELSE LET w == KeyExpansion(KeyBytes)
           t == MulTable(AesBlock(w, Zeros(16)))
           j0 == PreCounter(t, rnd)
           encryptedData == Gctr(w, j0, buffer)
           authTag == GcmTag(w, t, j0, encryptedData)
       IN  [threw |-> FALSE,
            encryptedData |-> encryptedData,
            iv |-> ToHex(rnd),
            authTag |-> ToHex(authTag)]

Failed == [threw |-> TRUE, value |-> <<>>]

\* the IV lengths createCipheriv and createDecipheriv accept for aes-256-gcm:
\* 1 to 128 bytes
IvLengthAllowed(n) == n >= 1 /\ n <= 128

\* decryptFile that does not compare the tag
decryptFile_unchecked(encryptedData, iv, authTag) ==
  LET ivBuf == FromHex(iv)
  IN  IF Len(KeyBytes) # 32 \/ ~IvLengthAllowed(Len(ivBuf)) THEN Failed
      ELSE LET w == KeyExpansion(KeyBytes)
               t == MulTable(AesBlock(w, Zeros(16)))
           IN  [threw |-> FALSE,
                value |-> Gctr(w, PreCounter(t, ivBuf), encryptedData)]

\* decryptFile(encryptedData, iv, authTag): createDecipheriv throws on a key that
\* is not 32 bytes, on an empty IV and on an IV of more than 128 bytes,
\* setAuthTag on a tag of a length GCM does not allow, final() when the tag
\* given is not the tag of the data
decryptFile(encryptedData, iv, authTag) ==
  LET ivBuf == FromHex(iv)
      tagBuf == FromHex(authTag)
  IN  IF Len(KeyBytes) # 32 \/ ~IvLengthAllowed(Len(ivBuf)) THEN Failed
      ELSE IF Len(tagBuf) \notin TagLengths THEN Failed
      ELSE LET w == KeyExpansion(KeyBytes)
               t == MulTable(AesBlock(w, Zeros(16)))
               j0 == PreCounter(t, ivBuf)
               expected == Slice(GcmTag(w, t, j0, encryptedData), Len(tagBuf))
           IN  IF expected # tagBuf THEN Failed
               ELSE [threw |-> FALSE, value |-> Gctr(w, j0, encryptedData)]

(***************************************************************************)
(* Inputs of the codec                                                     *)
(***************************************************************************)
\* how many direct encryptFile calls a run makes
MaxSeals == 2

\* bit positions altered in a buffer of n bits: every FlipStride-th one
FlipStride == 11
FlipBits(n) == {b \in 0..(n - 1) : b % FlipStride = 0}

\* values of ENCRYPTION_KEY in the environment, as UTF-16 code units:
\* 32 ASCII characters; 32 characters of which the first takes two bytes;
\* 31 ASCII characters; 20 two-byte characters (40 bytes); the empty text
Key32 == <<48, 49, 50, 51, 52, 53, 54, 55, 56, 57, 97, 98, 99, 100, 101, 102, 48, 49, 50, 51, 52, 53, 54, 55, 56, 57, 97, 98, 99, 100, 101, 102>>
Key32Wide == <<233>> \o SubSeq(Key32, 2, 32)
Key31 == SubSeq(Key32, 1, 31)
Key20Wide == [i \in 1..20 |-> 233]
EnvValues == {Null, Some(<<>>), Some(Key31), Some(Key20Wide), Some(Key32), Some(Key32Wide)}

\* file contents: "hello world", and 17 bytes (more than a block)
HelloWorld == <<104, 101, 108, 108, 111, 32, 119, 111, 114, 108, 100>>
Block17 == [i \in 1..17 |-> 15 * i]

\* what the codec is called with directly: the empty buffer and 17 bytes
Buffers == {<<>>, Block17}

\* what crypto.randomBytes(16) may return
Nonces == {[i \in 1..16 |-> i - 1], [i \in 1..16 |-> 255 - 3 * i]}

\* what encryptFile returned for "hello world" under Key32 with the first and with the
\* second of Nonces drawn
TreeSealed ==
  << [threw |-> FALSE,
      encryptedData |-> <<142, 163, 254, 204, 167, 93, 169, 122, 178, 226, 136>>,
      iv |-> ToHex([i \in 1..16 |-> i - 1]),
      authTag |-> ToHex(<<203, 134, 30, 249, 39, 32, 63, 206, 110, 77, 232, 151,
                          145, 137, 205, 28>>)],
     [threw |-> FALSE,
      encryptedData |-> <<41, 40, 131, 194, 199, 11, 253, 140, 163, 63, 235>>,
      iv |-> ToHex([i \in 1..16 |-> 255 - 3 * i]),
      authTag |-> ToHex(<<35, 18, 63, 156, 146, 179, 149, 190, 9, 244, 99, 182,
                          218, 57, 176, 138>>)] >>

(***************************************************************************)
(* Direct calls of the codec                                               *)
(***************************************************************************)
NoCall == [kind |-> "none"]

\* no request is being answered
Idle == [op |-> "none"]

\* no request is passing through a route
NoReq == [stage |-> "none"]

\* a bucket that holds no object
EmptyBucket == [p \in {} |-> <<>>]

\* buf with bit b (0 = leftmost) inverted
FlipBit(buf, b) ==
  [buf EXCEPT ![(b \div 8) + 1] = XorByte(@, 2 ^ (7 - (b % 8)))]

\* texts that are not the hex encoding of 16 bytes, made from one that is
Malformed(text) ==
  { SubSeq(text, 1, 30),          \* the last byte cut off
    SubSeq(text, 1, 24),          \* cut to 12 bytes
    SubSeq(text, 1, 31),          \* half of the last byte cut off
    text \o <<"0">>,              \* one digit too many
    text \o <<"z", "z">>,         \* followed by characters that are no digits
    text \o <<"0", "0">>,         \* one byte too many
    [text EXCEPT ![1] = "z"],     \* no digit at the start
    [text EXCEPT ![32] = "g"],    \* no digit at the end
    text \o text \o text \o text \o text \o text \o text \o text \o text,
                                  \* nine times over: 144 bytes
    <<>> }

\* encryptFile(buffer), with rnd drawn by randomBytes
SealCall(buffer, rnd) ==
  /\ loaded = "yes"
  /\ opened = NoCall
  /\ Len(seals) < MaxSeals
  /\ seals' = Append(seals, [buffer |-> buffer, rnd |-> rnd, out |-> encryptFile(buffer, rnd)])
  /\ UNCHANGED <<codecVars, opened, flights, slots, ctrlVars>>

Open(kind, i, data, iv, authTag) ==
  /\ loaded = "yes"
  /\ opened = NoCall
  /\ opened' = [kind |-> kind, of |-> i, encryptedData |-> data, iv |-> iv,
                authTag |-> authTag, out |-> decryptFile(data, iv, authTag)]
  /\ UNCHANGED <<codecVars, seals, flights, slots, ctrlVars>>

\* decryptFile on exactly what an encryptFile call returned
OpenSealed ==
  \E i \in 1..Len(seals) :
    LET e == seals[i].out IN Open("intact", i, e.encryptedData, e.iv, e.authTag)

\* decryptFile with one bit of the ciphertext, of the nonce or of the tag of
\* the blob sealed last inverted
OpenFlipped ==
  /\ Len(seals) > 0
  /\ LET i == Len(seals)
         e == seals[i].out
     IN  \/ \E b \in FlipBits(8 * Len(e.encryptedData)) :
              Open("flipped", i, FlipBit(e.encryptedData, b), e.iv, e.authTag)
         \/ \E b \in FlipBits(128) :
              Open("flipped", i, e.encryptedData, ToHex(FlipBit(FromHex(e.iv), b)), e.authTag)
         \/ \E b \in FlipBits(128) :
              Open("flipped", i, e.encryptedData, e.iv, ToHex(FlipBit(FromHex(e.authTag), b)))

\* decryptFile with the tag of another sealed blob
OpenSwapped ==
  \E i, j \in 1..Len(seals) :
    LET e == seals[i].out
        f == seals[j].out
    IN  /\ <<e.encryptedData, e.iv>> # <<f.encryptedData, f.iv>>
        /\ Open("swapped", i, e.encryptedData, e.iv, f.authTag)

\* decryptFile on the blob sealed last, with a nonce text or a tag text that
\* does not encode 16 bytes
OpenMalformed ==
  /\ Len(seals) > 0
  /\ LET i == Len(seals)
         e == seals[i].out
     IN  \/ \E t \in Malformed(e.iv) :
              Open("malformed", i, e.encryptedData, t, e.authTag)
         \/ \E t \in Malformed(e.authTag) :
              Open("malformed", i, e.encryptedData, e.iv, t)

\* the call has returned or thrown; the next one can be made
Return ==
  /\ opened # NoCall
  /\ opened' = NoCall
  /\ UNCHANGED <<codecVars, seals, flights, slots, ctrlVars>>

InitCodec ==
  /\ env \in EnvValues
  /\ loaded = "no"
  /\ ENCRYPTION_KEY = Null
  /\ seals = <<>>
  /\ opened = NoCall
  /\ storage = EmptyBucket
  /\ files = {}
  /\ folders = {}
  /\ nextId = 1
  /\ now = 0
  /\ served = 0
  /\ uploads = <<>>
  /\ last = Idle
  /\ nextFolderId = 1
  /\ reqs = <<>>
  /\ flights = <<>>
  /\ slots = <<>>
  /\ session = Null
  /\ accounts = Accounts
  /\ dotfile = Null
  /\ boot = "start"

NextCodec ==
  \/ LoadCodec
  \/ \E buffer \in Buffers, rnd \in Nonces : SealCall(buffer, rnd)
  \/ OpenSealed
  \/ OpenFlipped
  \/ OpenSwapped
  \/ OpenMalformed
  \/ Return

SpecCodec == InitCodec /\ [][NextCodec]_vars

(***************************************************************************)
(* Calls of the codec that overlap, statement by statement                 *)
(***************************************************************************)
\* how many codec calls a run makes
MaxCalls == 2

\* a call that has not made its cipher object yet
NoCipher == [made |-> FALSE]

\* `const cipher`, `const decipher`: the object call c makes is its own
CipherOf(c) == c

\* what decryptFile is called with: the first blob of TreeSealed with its own
\* nonce and tag, and the same with the tag of the second
OpenArgs ==
  { [encryptedData |-> TreeSealed[1].encryptedData, iv |-> TreeSealed[1].iv,
     authTag |-> TreeSealed[1].authTag],
    [encryptedData |-> TreeSealed[1].encryptedData, iv |-> TreeSealed[1].iv,
     authTag |-> TreeSealed[2].authTag] }

\* encryptFile(buffer) or decryptFile(encryptedData, iv, authTag) is entered
Begin ==
  /\ loaded = "yes"
  /\ Len(flights) < MaxCalls
  /\ \E call \in {[kind |-> "seal", buffer |-> b, ivText |-> <<>>, authTag |-> <<>>] :
                     b \in {<<>>, HelloWorld}}
                  \cup {[kind |-> "open", buffer |-> a.encryptedData, ivText |-> a.iv,
                          authTag |-> a.authTag] : a \in OpenArgs} :
       flights' = Append(flights,
                         [kind |-> call.kind, buffer |-> call.buffer,
                          ivText |-> call.ivText, authTag |-> call.authTag,
                          pc |-> "start", iv |-> <<>>, key |-> <<>>,
                          out |-> NoCall])
  /\ slots' = Append(slots, NoCipher)
  /\ UNCHANGED <<codecVars, seals, opened, ctrlVars>>

\* const iv = crypto.randomBytes(16)
RandomBytes(c) ==
  /\ flights[c].kind = "seal"
  /\ flights[c].pc = "start"
  /\ \E rnd \in Nonces : flights' = [flights EXCEPT ![c].iv = rnd, ![c].pc = "drawn"]
  /\ UNCHANGED <<codecVars, seals, opened, slots, ctrlVars>>

\* crypto.createCipheriv(ALGORITHM, key, iv), crypto.createDecipheriv(ALGORITHM,
\* key, Buffer.from(iv, 'hex')): the object holds the key and the nonce
CreateCipher(c) ==
  /\ \/ flights[c].kind = "seal" /\ flights[c].pc = "drawn"
     \/ flights[c].kind = "open" /\ flights[c].pc = "start"
  /\ LET iv == IF flights[c].kind = "seal" THEN flights[c].iv
               ELSE FromHex(flights[c].ivText)
     IN  /\ slots' = [slots EXCEPT ![CipherOf(c)] =
                        [made |-> TRUE, key |-> KeyBytes, iv |-> iv]]
         /\ flights' = [flights EXCEPT ![c].iv = iv, ![c].key = KeyBytes,
                                       ![c].pc = "cipher"]
  /\ UNCHANGED <<codecVars, seals, opened, ctrlVars>>

\* cipher.update, cipher.final, cipher.getAuthTag and the return of encryptFile;
\* decipher.setAuthTag, decipher.update, decipher.final and the return of
\* decryptFile: computed from what the call's object holds
Final(c) ==
  /\ flights[c].pc = "cipher"
  /\ flights' = [flights EXCEPT
       ![c].pc = "done",
       ![c].out =
         IF flights[c].kind = "seal"
         THEN [encryptFile(flights[c].buffer, slots[CipherOf(c)].iv) EXCEPT
                 !.iv = ToHex(flights[c].iv)]
         ELSE decryptFile(flights[c].buffer, ToHex(slots[CipherOf(c)].iv),
                          flights[c].authTag)]
  /\ UNCHANGED <<codecVars, seals, opened, slots, ctrlVars>>

\* process.env.ENCRYPTION_KEY is assigned another value
ChangeEnv ==
  /\ \E k \in {Some(Key32), Some(Key32Wide)} \ {env} : env' = k
  /\ UNCHANGED <<loaded, ENCRYPTION_KEY, session, accounts, dotfile, boot, callVars, ctrlVars>>

InitCalls == InitCodec /\ env \in {Some(Key32), Some(Key31)}

NextCalls ==
  \/ LoadCodec
  \/ ChangeEnv
  \/ Begin
  \/ \E c \in 1..Len(flights) : RandomBytes(c)
  \/ \E c \in 1..Len(flights) : CreateCipher(c)
  \/ \E c \in 1..Len(flights) : Final(c)

SpecCalls == InitCalls /\ [][NextCalls]_vars

(***************************************************************************)
(* The codec's contract                                                    *)
(***************************************************************************)
\* C1: decryptFile applied to the ciphertext, nonce and tag that an
\* encryptFile call returned, under the same key, does not throw and returns
\* exactly the buffer that call was given, the empty buffer included.
RoundTrip ==
  opened.kind = "intact" =>
    /\ ~seals[opened.of].out.threw
    /\ ~opened.out.threw
    /\ opened.out.value = seals[opened.of].buffer

\* a buffer longer than a block has been sealed and opened again
RoundTripSeen ==
  /\ opened.kind = "intact"
  /\ seals[opened.of].buffer = Block17
  /\ opened.encryptedData # Block17
  /\ opened.out = [threw |-> FALSE, value |-> Block17]

\* C2: decryptFile throws, and returns no bytes, when one bit of the
\* ciphertext, of the nonce or of the tag of a sealed blob is inverted, and
\* when the tag is that of a different sealed blob.
TamperDetected ==
  opened.kind \in {"flipped", "swapped"} =>
    opened.out.threw /\ opened.out.value = <<>>

\* a bit of the ciphertext was inverted, and the call threw
TamperSeen ==
  /\ opened.kind = "flipped"
  /\ opened.encryptedData # seals[opened.of].out.encryptedData
  /\ opened.iv = seals[opened.of].out.iv
  /\ opened.authTag = seals[opened.of].out.authTag
  /\ opened.out.threw

\* C5: decryptFile throws, and returns no bytes, when the nonce text or the
\* tag text it is given is not the hex encoding of exactly 16 bytes.
MalformedRejected ==
  opened.kind = "malformed" =>
    opened.out.threw /\ opened.out.value = <<>>

\* C6 as stated: no two encryptFile calls use the same nonce, and two calls
\* on the same plaintext return different nonces and different ciphertexts.
NonceNeverRepeats ==
  \A i, j \in 1..Len(seals) :
    i < j =>
      /\ seals[i].out.iv # seals[j].out.iv
      /\ seals[i].buffer = seals[j].buffer =>
           seals[i].out.encryptedData # seals[j].out.encryptedData

\* C6: every encryptFile call uses as its nonce exactly the 16 bytes that
\* crypto.randomBytes returned in that call, and returns them as 32 lowercase
\* hex digits; two calls return the same nonce exactly when randomBytes
\* returned the same bytes in both, and two calls on the same plaintext return
\* different ciphertexts only when that plaintext is not empty.
NonceIsTheDraw ==
  /\ \A i \in 1..Len(seals) :
       /\ ~seals[i].out.threw
       /\ Len(seals[i].out.iv) = 32
       /\ seals[i].out.iv = ToHex(seals[i].rnd)
       /\ FromHex(seals[i].out.iv) = seals[i].rnd
  /\ \A i, j \in 1..Len(seals) :
       /\ seals[i].out.iv = seals[j].out.iv <=> seals[i].rnd = seals[j].rnd
       /\ seals[i].buffer = seals[j].buffer
            /\ seals[i].out.encryptedData # seals[j].out.encryptedData
          => seals[i].buffer # <<>>

\* the same plaintext was sealed twice under two different draws
TwoDrawsSeen ==
  /\ Len(seals) = 2
  /\ seals[1].buffer = Block17
  /\ seals[2].buffer = Block17
  /\ seals[1].rnd # seals[2].rnd
  /\ seals[1].out.iv # seals[2].out.iv
  /\ seals[1].out.encryptedData # seals[2].out.encryptedData

\* C7 as stated: loading throws when ENCRYPTION_KEY is unset or shorter than
\* 32 bytes, and succeeds with a key of at least 32 bytes.
GateCountsBytes ==
  loaded # "no" =>
    (loaded = "threw" <=> (~env.some \/ Len(Utf8(env.val)) < 32))

\* C7: loading the codec throws when ENCRYPTION_KEY is unset, empty or
\* shorter than 32 characters (UTF-16 code units), and then no encryptFile or
\* decryptFile call is made; with a key of at least 32 characters loading
\* succeeds, and the key then has at least 32 bytes.
GateCountsCharacters ==
  /\ loaded # "no" =>
       /\ loaded = "threw" <=> (~env.some \/ Len(env.val) < 32)
       /\ ENCRYPTION_KEY = env
  /\ loaded = "yes" => Len(Utf8(ENCRYPTION_KEY.val)) >= 32
  /\ (Len(seals) > 0 \/ opened # NoCall) =>
       loaded = "yes" /\ Len(ENCRYPTION_KEY.val) >= 32

\* a key of 31 characters made the import throw
GateSeen ==
  /\ env = Some(Key31)
  /\ loaded = "threw"
  /\ seals = <<>>

(***************************************************************************)
(* The storage bucket and the tables, as the controller's calls see them   *)
(***************************************************************************)
\* an id that may be absent from a request
NoId == [some |-> FALSE, val |-> 0]

\* storage.from('file-vault').upload(path, data, {upsert: false})
StorageUpload(bucket, path, data, fault) ==
  IF fault \/ path \in DOMAIN bucket
  THEN [error |-> TRUE, bucket |-> bucket]
  ELSE [error |-> FALSE, bucket |-> (path :> data) @@ bucket]

\* storage.from('file-vault').download(path)
StorageDownload(bucket, path, fault) ==
  IF fault \/ path \notin DOMAIN bucket
  THEN [error |-> TRUE, data |-> <<>>]
  ELSE [error |-> FALSE, data |-> bucket[path]]

\* a move that leaves an empty object under the new path
StorageMove_blank(bucket, oldPath, newPath, fault) ==
  IF fault \/ oldPath \notin DOMAIN bucket \/ newPath \in DOMAIN bucket
  THEN [error |-> TRUE, bucket |-> bucket]
  ELSE [error |-> FALSE,
        bucket |-> [p \in (DOMAIN bucket \ {oldPath}) \cup {newPath} |->
                      IF p = newPath THEN <<>> ELSE bucket[p]]]

\* storage.from('file-vault').move(oldPath, newPath)
StorageMove(bucket, oldPath, newPath, fault) ==
  IF fault \/ oldPath \notin DOMAIN bucket \/ newPath \in DOMAIN bucket
  THEN [error |-> TRUE, bucket |-> bucket]
  ELSE [error |-> FALSE,
        bucket |-> [p \in (DOMAIN bucket \ {oldPath}) \cup {newPath} |->
                      IF p = newPath THEN bucket[oldPath] ELSE bucket[p]]]

\* storage.from('file-vault').remove([path]): no error when nothing is there
StorageRemove(bucket, path, fault) ==
  IF fault
  THEN [error |-> TRUE, bucket |-> bucket]
  ELSE [error |-> FALSE, bucket |-> [p \in DOMAIN bucket \ {path} |-> bucket[p]]]

\* storage.from('file-vault').getPublicUrl(path).publicUrl
PublicUrl(path) == <<"file-vault/">> \o path

\* from(table).select().eq('id', id).eq('user_id', user)
FindRow_anyOwner(table, id, user) == {r \in table : r.id = id}

FindRow(table, id, user) == {r \in table : r.id = id /\ r.user_id = user}

\* .single(): an error unless exactly one row was selected
Single(rows, fault) ==
  IF fault \/ Cardinality(rows) # 1
  THEN [error |-> TRUE, data |-> <<>>]
  ELSE [error |-> FALSE, data |-> CHOOSE r \in rows : TRUE]

Digits == <<"0", "1", "2", "3", "4", "5", "6", "7", "8", "9">>

\* `${n}` of a number that is not negative
RECURSIVE ToDecimal(_)
ToDecimal(n) ==
  IF n < 10 THEN <<Digits[n + 1]>>
  ELSE ToDecimal(n \div 10) \o <<Digits[(n % 10) + 1]>>

\* text.split('.').pop(): what follows the last dot, all of it if there is none
RECURSIVE LastPart(_)
LastPart(text) ==
  IF \A i \in 1..Len(text) : text[i] # "." THEN text
  ELSE LastPart(Tail(text))

\* the characters name.replace(/[^a-zA-Z0-9_-]/g, '_') keeps
LowerCase == <<"a", "b", "c", "d", "e", "f", "g", "h", "i", "j", "k", "l", "m",
               "n", "o", "p", "q", "r", "s", "t", "u", "v", "w", "x", "y", "z">>
UpperCase == <<"A", "B", "C", "D", "E", "F", "G", "H", "I", "J", "K", "L", "M",
               "N", "O", "P", "Q", "R", "S", "T", "U", "V", "W", "X", "Y", "Z">>
WordChars ==
  {LowerCase[i] : i \in 1..26} \cup {UpperCase[i] : i \in 1..26}
    \cup {Digits[i] : i \in 1..10} \cup {"_", "-"}

\* name.replace(/[^a-zA-Z0-9_-]/g, '_')
Sanitize(name) ==
  Tup([i \in 1..Len(name) |-> IF name[i] \in WordChars THEN name[i] ELSE "_"])

\* text.toLowerCase(), of the letters A to Z
LowerChar(c) ==
  IF \E i \in 1..26 : UpperCase[i] = c
  THEN LowerCase[CHOOSE i \in 1..26 : UpperCase[i] = c]
  ELSE c
ToLowerCase(text) == Tup([i \in 1..Len(text) |-> LowerChar(text[i])])

\* SQL: text LIKE pattern (ci false) and text ILIKE pattern (ci true); in the
\* pattern % stands for any characters and _ for any one character
RECURSIVE Like(_, _, _)
Like(text, pattern, ci) ==
  IF pattern = <<>> THEN text = <<>>
  ELSE IF Head(pattern) = "%"
  THEN Like(text, Tail(pattern), ci)
         \/ (text # <<>> /\ Like(Tail(text), pattern, ci))
  ELSE /\ text # <<>>
       /\ \/ Head(pattern) = "_"
          \/ Head(pattern) = Head(text)
          \/ ci /\ LowerChar(Head(pattern)) = LowerChar(Head(text))
       /\ Like(Tail(text), Tail(pattern), ci)

\* text.split(sep): the pieces of text between the separators
RECURSIVE Split(_, _)
Split(text, sep) ==
  IF \A i \in 1..Len(text) : text[i] # sep THEN <<text>>
  ELSE LET i == CHOOSE k \in 1..Len(text) :
                  text[k] = sep /\ \A j \in 1..(k - 1) : text[j] # sep
       IN  <<SubSeq(text, 1, i - 1)>> \o Split(SubSeq(text, i + 1, Len(text)), sep)

\* pieces.join(sep)
RECURSIVE Join(_, _)
Join(pieces, sep) ==
  IF Len(pieces) = 0 THEN <<>>
  ELSE IF Len(pieces) = 1 THEN pieces[1]
  ELSE pieces[1] \o <<sep>> \o Join(Tail(pieces), sep)

(***************************************************************************)
(* middlewares/VerifyToken.ts and routes/FileRoutes.ts                     *)
(***************************************************************************)
\* the tokens the auth provider knows, and the user each one stands for
Sessions ==
  (<<"t", "u">> :> <<"u">>) @@ (<<"t", "v">> :> <<"v">>) @@ (<<"t", "w">> :> <<"w">>)

\* the refresh tokens the auth provider knows, and the user each was given to
Refreshers == (<<"r", "u">> :> <<"u">>)

\* supabase.auth.getUser(jwt): the user the token stands for; called with no
\* jwt, the client asks with the access token of the session it holds, and
\* answers an error when it holds none
GetUser(token) ==
  LET jwt == IF Truthy(token) THEN token ELSE session
  IN  IF jwt.some /\ jwt.val \in DOMAIN Sessions /\ Sessions[jwt.val] \in DOMAIN accounts
      THEN [error |-> FALSE, user |-> Some(Sessions[jwt.val])]
      ELSE [error |-> TRUE, user |-> Null]

\* authHeader.split(' ')[1]: undefined when the header holds no space
TokenOf(authHeader) ==
  LET pieces == Split(authHeader, " ")
  IN  IF Len(pieces) < 2 THEN Null ELSE Some(pieces[2])

\* verifyToken that calls next whatever the auth provider answered
verifyToken_lax(authorization) ==
  IF ~Truthy(authorization)
  THEN [next |-> FALSE, status |-> 401, message |-> "Missing Authorization header",
        user |-> Null]
  ELSE [next |-> TRUE, status |-> 0, message |-> "",
        user |-> GetUser(TokenOf(authorization.val)).user]

\* verifyToken: what it answers, or that it calls next with req.user set
verifyToken(authorization) ==
  IF ~Truthy(authorization)
  THEN [next |-> FALSE, status |-> 401, message |-> "Missing Authorization header",
        user |-> Null]
  ELSE LET got == GetUser(TokenOf(authorization.val))
       IN  IF got.error \/ ~got.user.some
           THEN [next |-> FALSE, status |-> 401, message |-> "Invalid or expired token",
                 user |-> Null]
           ELSE [next |-> TRUE, status |-> 0, message |-> "", user |-> got.user]

\* the routes of the file router, and the handler each one ends in
Routes ==
  ("POST /folders" :> "createFolder") @@ ("GET /folders" :> "listFolders")
    @@ ("GET /list" :> "listFiles") @@ ("POST /upload" :> "upload")
    @@ ("POST /download" :> "download") @@ ("PUT /update" :> "rename")
    @@ ("DELETE /delete" :> "delete")

(***************************************************************************)
(* class FileController (controllers/AuthController.ts, from line 73)       *)
(* Every handler is an async function: it runs up to its next awaited call *)
(* and goes on when that call has answered, and requests that came in      *)
(* meanwhile run in between.  The stage of a request names the call its    *)
(* handler waits for; loc holds the handler's locals.                      *)
(***************************************************************************)
\* res.status(status).json({success, message}): no file bytes, no headers
Json(op, user, fileId, status, message) ==
  [op |-> op, user |-> user, fileId |-> fileId, status |-> status,
   message |-> message, body |-> Null, contentType |-> "", filename |-> <<>>,
   fetched |-> Null, decryptCalls |-> 0, decryptThrew |-> FALSE,
   newName |-> Null, sealed |-> Threw, path |-> <<>>, rows |-> {}]

\* res.setHeader('Content-Type', ..); res.setHeader('Content-Disposition', ..);
\* res.send(fileBuffer)
Send(op, user, fileId, row, fileBuffer) ==
  [Json(op, user, fileId, 200, "") EXCEPT
     !.body = Some(fileBuffer),
     !.contentType = row.mimetype,
     !.filename = row.originalname]

\* a response goes out
Reply(reply) ==
  /\ last' = reply
  /\ served' = served + 1

\* request i has been answered: the handler returns
Answer(i, reply) ==
  /\ Reply(reply)
  /\ reqs' = [reqs EXCEPT ![i] = NoReq]

\* the handler of request i has made its next call and waits for the answer
Await(i, stage, loc) ==
  /\ reqs' = [reqs EXCEPT ![i] = [@ EXCEPT !.stage = stage, !.loc = loc]]
  /\ UNCHANGED <<last, served>>

\* uploadFile, one step of request i.  At the start: req.file (may be absent),
\* req.body.folderId (may be absent), sealed is what encryptFile(req.file.buffer)
\* returns and clock what Date.now() returns.  Later: the awaited call has
\* answered, with an error when fail
uploadFile(i, file, folderId, sealed, clock, fail) ==
  LET user == reqs[i].user.val
      loc == reqs[i].loc
      reply(status, message) == Json("upload", user, NoId, status, message)
      start ==
        LET uniqueFileName == ToDecimal(clock) \o <<"-">> \o file.val.originalname
            locals == [file |-> file.val, folderId |-> folderId, sealed |-> sealed,
                       uniqueFileName |-> uniqueFileName,
                       filePath |-> user \o <<"/">> \o uniqueFileName]
        IN  /\ now' = clock
            /\ UNCHANGED <<storeVars, uploads>>
            /\ IF ~file.some THEN Answer(i, reply(400, "No file uploaded"))
               ELSE IF sealed.threw THEN Answer(i, reply(500, "next(error)"))
               ELSE IF folderId.some THEN Await(i, "folders.select", locals)
               ELSE Await(i, "storage.upload", locals)
      folderSelected ==
        LET folder == Single(FindRow(folders, loc.folderId.val, user), fail)
        IN  /\ UNCHANGED <<storeVars, now, uploads>>
            /\ IF folder.error THEN Answer(i, reply(404, "Folder not found"))
               ELSE Await(i, "storage.upload",
                          [loc EXCEPT !.filePath =
                             folder.data.path \o <<"/">> \o loc.uniqueFileName])
      uploaded ==
        LET put == StorageUpload(storage, loc.filePath, loc.sealed.encryptedData, fail)
        IN  /\ UNCHANGED <<files, folders, nextId, nextFolderId, now, uploads>>
            /\ IF put.error
               THEN /\ UNCHANGED storage
                    /\ Answer(i, reply(500, "Failed to upload file to storage"))
               ELSE /\ storage' = put.bucket
                    /\ Await(i, "files.insert", loc)
      inserted ==
        LET row == [id |-> nextId,
                    user_id |-> user,
                    originalname |-> loc.file.originalname,
                    filename |-> loc.uniqueFileName,
                    path |-> loc.filePath,
                    mimetype |-> loc.file.mimetype,
                    size |-> loc.file.size,
                    url |-> Some(PublicUrl(loc.filePath)),
                    iv |-> Some(loc.sealed.iv),
                    auth_tag |-> Some(loc.sealed.authTag),
                    is_encrypted |-> TRUE,
                    folder_id |-> loc.folderId]
        IN  /\ UNCHANGED <<storage, folders, nextFolderId, now>>
            /\ IF fail
               THEN /\ UNCHANGED <<files, nextId, uploads>>
                    /\ Answer(i, [reply(500, "Failed to save file metadata") EXCEPT
                                    !.sealed = loc.sealed, !.path = loc.filePath])
               ELSE /\ files' = files \cup {row}
                    /\ nextId' = nextId + 1
                    /\ uploads' = (nextId :> [user |-> user, file |-> loc.file,
                                              sealed |-> loc.sealed]) @@ uploads
                    /\ Answer(i, [reply(200, "") EXCEPT
                                    !.fileId = Some(nextId), !.sealed = loc.sealed,
                                    !.path = loc.filePath])
  IN  CASE reqs[i].stage = "handler" -> start
        [] reqs[i].stage = "folders.select" -> folderSelected
        [] reqs[i].stage = "storage.upload" -> uploaded
        [] reqs[i].stage = "files.insert" -> inserted

\* downloadFile answering a failed decryption with the bytes as stored
fileBuffer_fallback(row, data) ==
  IF row.is_encrypted /\ Truthy(row.iv) /\ Truthy(row.auth_tag)
  THEN LET out == decryptFile(data, row.iv.val, row.auth_tag.val)
       IN  [caught |-> FALSE,
            value |-> IF out.threw THEN data ELSE out.value,
            decryptCalls |-> 1,
            decryptThrew |-> out.threw]
  ELSE [caught |-> FALSE, value |-> data, decryptCalls |-> 0, decryptThrew |-> FALSE]

\* downloadFile handing every row's bytes to decryptFile
fileBuffer_always(row, data) ==
  LET out == decryptFile(data, row.iv.val, row.auth_tag.val)
  IN  [caught |-> out.threw, value |-> out.value, decryptCalls |-> 1,
       decryptThrew |-> out.threw]

\* downloadFile, the bytes to send for a row and the bytes stored under its
\* path: decrypted when the row is marked encrypted and has a nonce and a tag,
\* as stored otherwise; caught when decryptFile threw
fileBuffer(row, data) ==
  IF row.is_encrypted /\ Truthy(row.iv) /\ Truthy(row.auth_tag)
  THEN LET out == decryptFile(data, row.iv.val, row.auth_tag.val)
       IN  [caught |-> out.threw,
            value |-> out.value,
            decryptCalls |-> 1,
            decryptThrew |-> out.threw]
  ELSE [caught |-> FALSE, value |-> data, decryptCalls |-> 0, decryptThrew |-> FALSE]

\* res.send with the name the file is stored under
Deliver_storedName(user, fileId, row, data, out) ==
  [Send("download", user, fileId, row, out.value) EXCEPT
     !.filename = row.filename,
     !.fetched = Some(data),
     !.decryptCalls = out.decryptCalls,
     !.decryptThrew = out.decryptThrew,
     !.rows = {row}]

\* downloadFile, the response once the bytes to send are there
Deliver(user, fileId, row, data, out) ==
  [Send("download", user, fileId, row, out.value) EXCEPT
     !.fetched = Some(data),
     !.decryptCalls = out.decryptCalls,
     !.decryptThrew = out.decryptThrew,
     !.rows = {row}]

\* downloadFile, one step of request i: req.body.fileId (may be absent) at the
\* start; nothing is written
downloadFile(i, fileId, fail) ==
  LET user == reqs[i].user.val
      loc == reqs[i].loc
      reply(status, message) ==
        Json("download", user, IF reqs[i].stage = "handler" THEN fileId ELSE loc.fileId,
             status, message)
      start ==
        IF ~fileId.some THEN Answer(i, reply(400, "File ID is required"))
        ELSE Await(i, "files.select", [fileId |-> fileId])
      selected ==
        LET found == Single(FindRow(files, loc.fileId.val, user), fail)
        IN  IF found.error THEN Answer(i, reply(404, "File not found"))
            ELSE Await(i, "storage.download", [fileId |-> loc.fileId, row |-> found.data])
      downloaded ==
        LET got == StorageDownload(storage, loc.row.path, fail)
        IN  IF got.error
            THEN Answer(i, [reply(500, "Failed to download file from storage") EXCEPT
                              !.rows = {loc.row}])
            ELSE Await(i, "arrayBuffer",
                       [fileId |-> loc.fileId, row |-> loc.row, data |-> got.data])
      buffered ==
        \E out \in {fileBuffer(loc.row, loc.data)} :
          IF out.caught
          THEN Answer(i, [reply(500, "Failed to decrypt file") EXCEPT
                            !.fetched = Some(loc.data),
                            !.decryptCalls = out.decryptCalls,
                            !.decryptThrew = out.decryptThrew,
                            !.rows = {loc.row}])
          ELSE Answer(i, Deliver(user, loc.fileId, loc.row, loc.data, out))
  IN  /\ UNCHANGED <<storeVars, now, uploads>>
      /\ CASE reqs[i].stage = "handler" -> start
           [] reqs[i].stage = "files.select" -> selected
           [] reqs[i].stage = "storage.download" -> downloaded
           [] reqs[i].stage = "arrayBuffer" -> buffered

\* updateFileName, one step of request i: req.body.fileId and req.body.newName
\* (may be absent) at the start
updateFileName(i, fileId, newName, fail) ==
  LET user == reqs[i].user.val
      loc == reqs[i].loc
      reply(status, message) ==
        IF reqs[i].stage = "handler"
        THEN [Json("rename", user, fileId, status, message) EXCEPT !.newName = newName]
        ELSE [Json("rename", user, loc.fileId, status, message) EXCEPT
                !.newName = loc.newName]
      start ==
        /\ UNCHANGED <<storage, files>>
        /\ IF ~fileId.some \/ ~Truthy(newName)
           THEN Answer(i, reply(400, "File ID and new name are required"))
           ELSE Await(i, "files.select", [fileId |-> fileId, newName |-> newName])
      selected ==
        LET found == Single(FindRow(files, loc.fileId.val, user), fail)
            row == found.data
            fileExt == LastPart(row.originalname)
            newFilename == loc.newName.val \o <<".">> \o fileExt
            newPath == user \o <<"/">> \o newFilename
        IN  /\ UNCHANGED <<storage, files>>
            /\ IF found.error THEN Answer(i, reply(404, "File not found"))
               ELSE Await(i, "storage.move",
                          [fileId |-> loc.fileId, newName |-> loc.newName,
                           row |-> row, oldPath |-> row.path,
                           newFilename |-> newFilename, newPath |-> newPath])
      moved ==
        LET to == StorageMove(storage, loc.oldPath, loc.newPath, fail)
        IN  /\ UNCHANGED files
            /\ IF to.error
               THEN /\ UNCHANGED storage
                    /\ Answer(i, [reply(500, "Failed to rename file in storage") EXCEPT
                                    !.rows = {loc.row}])
               ELSE /\ storage' = to.bucket
                    /\ Await(i, "files.update", loc)
      updated ==
        /\ UNCHANGED storage
        /\ IF fail
           THEN /\ UNCHANGED files
                /\ Answer(i, [reply(500, "Failed to update file metadata") EXCEPT
                                !.rows = {loc.row}, !.path = loc.newPath])
           ELSE /\ files' = {IF r.id = loc.fileId.val /\ r.user_id = user
                             THEN [r EXCEPT !.filename = loc.newFilename,
                                            !.path = loc.newPath,
                                            !.url = Some(PublicUrl(loc.newPath))]
                             ELSE r : r \in files}
                /\ Answer(i, [reply(200, "File name updated successfully") EXCEPT
                                !.rows = {loc.row}, !.path = loc.newPath])
  IN  /\ UNCHANGED <<folders, nextId, nextFolderId, now, uploads>>
      /\ CASE reqs[i].stage = "handler" -> start
           [] reqs[i].stage = "files.select" -> selected
           [] reqs[i].stage = "storage.move" -> moved
           [] reqs[i].stage = "files.update" -> updated

\* deleteFile, one step of request i: req.body.fileId (may be absent) at the
\* start
deleteFile(i, fileId, fail) ==
  LET user == reqs[i].user.val
      loc == reqs[i].loc
      reply(status, message) ==
        Json("delete", user, IF reqs[i].stage = "handler" THEN fileId ELSE loc.fileId,
             status, message)
      start ==
        /\ UNCHANGED <<storage, files>>
        /\ IF ~fileId.some THEN Answer(i, reply(400, "File ID is required"))
           ELSE Await(i, "files.select", [fileId |-> fileId])
      selected ==
        LET found == Single(FindRow(files, loc.fileId.val, user), fail)
        IN  /\ UNCHANGED <<storage, files>>
            /\ IF found.error THEN Answer(i, reply(404, "File not found"))
               ELSE Await(i, "storage.remove", [fileId |-> loc.fileId, row |-> found.data])
      removed ==
        LET gone == StorageRemove(storage, loc.row.path, fail)
        IN  /\ UNCHANGED files
            /\ IF gone.error
               THEN /\ UNCHANGED storage
                    /\ Answer(i, [reply(500, "Failed to delete file from storage") EXCEPT
                                    !.rows = {loc.row}])
               ELSE /\ storage' = gone.bucket
                    /\ Await(i, "files.delete", loc)
      deleted ==
        /\ UNCHANGED storage
        /\ IF fail
           THEN /\ UNCHANGED files
                /\ Answer(i, [reply(500, "Failed to delete file metadata") EXCEPT
                                !.rows = {loc.row}])
           ELSE /\ files' = {r \in files : ~(r.id = loc.fileId.val /\ r.user_id = user)}
                /\ Answer(i, [reply(200, "File deleted successfully") EXCEPT
                                !.rows = {loc.row}])
  IN  /\ UNCHANGED <<folders, nextId, nextFolderId, now, uploads>>
      /\ CASE reqs[i].stage = "handler" -> start
           [] reqs[i].stage = "files.select" -> selected
           [] reqs[i].stage = "storage.remove" -> removed
           [] reqs[i].stage = "files.delete" -> deleted

\* oldPath without its last piece
ParentPath(path) ==
  LET pathParts == Split(path, "/")
  IN  Join(SubSeq(pathParts, 1, Len(pathParts) - 1), "/")

\* from('folders').select('name').eq('user_id', user).neq('id', exceptId)
\* .like('path', `${parentPath}/%`); exceptId is 0 where the query has no neq
ExistingFolders(table, user, exceptId, parentPath) ==
  {f \in table : /\ f.user_id = user
                 /\ f.id # exceptId
                 /\ Like(f.path, parentPath \o <<"/", "%">>, FALSE)}

\* existingFolders.some(folder => folder.name.toLowerCase() ===
\* sanitizedName.toLowerCase())
FolderExists(existingFolders, sanitizedName) ==
  \E f \in existingFolders : ToLowerCase(f.name) = ToLowerCase(sanitizedName)

\* createFolder, one step of request i: req.body.name and
\* req.body.parentFolderId (may be absent) at the start.  The query for the
\* folders already there may fail; the handler does not look at its error and
\* then makes no check
createFolder(i, name, parentFolderId, fail) ==
  LET user == reqs[i].user.val
      loc == reqs[i].loc
      reply(status, message) ==
        IF reqs[i].stage = "handler"
        THEN [Json("createFolder", user, parentFolderId, status, message) EXCEPT
                !.newName = name]
        ELSE [Json("createFolder", user, loc.parentFolderId, status, message) EXCEPT
                !.newName = loc.name]
      start ==
        LET sanitizedName == Sanitize(name.val)
            locals == [name |-> name, parentFolderId |-> parentFolderId,
                       sanitizedName |-> sanitizedName,
                       folderPath |-> user \o <<"/">> \o sanitizedName,
                       parentPath |-> user]
        IN  /\ UNCHANGED <<folders, nextFolderId>>
            /\ IF ~Truthy(name) THEN Answer(i, reply(400, "Folder name is required"))
               ELSE IF parentFolderId.some THEN Await(i, "folders.select", locals)
               ELSE Await(i, "folders.check", locals)
      selected ==
        LET parent == Single(FindRow(folders, loc.parentFolderId.val, user), fail)
        IN  /\ UNCHANGED <<folders, nextFolderId>>
            /\ IF parent.error THEN Answer(i, reply(404, "Parent folder not found"))
               ELSE Await(i, "folders.check",
                          [loc EXCEPT
                             !.folderPath = parent.data.path \o <<"/">> \o loc.sanitizedName,
                             !.parentPath = parent.data.path])
      checked ==
        LET existingFolders ==
              IF fail THEN {} ELSE ExistingFolders(folders, user, 0, loc.parentPath)
        IN  /\ UNCHANGED <<folders, nextFolderId>>
            /\ IF FolderExists(existingFolders, loc.sanitizedName)
               THEN Answer(i, reply(400,
                      "A folder with this name already exists (case insensitive)"))
               ELSE Await(i, "folders.insert", loc)
      inserted ==
        LET row == [id |-> nextFolderId, user_id |-> user,
                    name |-> loc.sanitizedName, path |-> loc.folderPath]
        IN  IF fail
            THEN /\ UNCHANGED <<folders, nextFolderId>>
                 /\ Answer(i, reply(500, "Failed to create folder"))
            ELSE /\ folders' = folders \cup {row}
                 /\ nextFolderId' = nextFolderId + 1
                 /\ Answer(i, [reply(201, "Folder created successfully") EXCEPT
                                 !.rows = {row}, !.path = loc.folderPath])
  IN  /\ UNCHANGED <<storage, files, nextId, now, uploads>>
      /\ CASE reqs[i].stage = "handler" -> start
           [] reqs[i].stage = "folders.select" -> selected
           [] reqs[i].stage = "folders.check" -> checked
           [] reqs[i].stage = "folders.insert" -> inserted

\* text.replace(old, new): the first place where old stands is replaced
Replace(text, old, new) ==
  LET at == {k \in 1..(Len(text) - Len(old) + 1) :
               SubSeq(text, k, k + Len(old) - 1) = old}
  IN  IF at = {} THEN text
      ELSE LET first == CHOOSE k \in at : \A j \in at : k <= j
           IN  SubSeq(text, 1, first - 1) \o new
                 \o SubSeq(text, first + Len(old), Len(text))

\* the orders in which a query without ORDER BY may return the rows it selects
Orders(rows) ==
  {q \in [1..Cardinality(rows) -> rows] :
     \A j, k \in 1..Cardinality(rows) : q[j] = q[k] => j = k}

\* update({path, url}).eq('id', id) on the files table
Repath(table, id, path) ==
  {IF r.id = id THEN [r EXCEPT !.path = path, !.url = Some(PublicUrl(path))] ELSE r :
     r \in table}

\* updateFolderName, one step of request i: req.body.folderId and
\* req.body.newName (may be absent) at the start.  loc.direct holds the files
\* of the folder the first loop has still to move, loc.nested the nested
\* folders the second loop has still to go through (the first of them is the
\* one it is at) and loc.nestedFiles the files of that folder still to move
updateFolderName(i, folderId, newName, fail) ==
  LET user == reqs[i].user.val
      loc == reqs[i].loc
      reply(status, message) ==
        IF reqs[i].stage = "handler"
        THEN [Json("renameFolder", user, folderId, status, message) EXCEPT
                !.newName = newName]
        ELSE [Json("renameFolder", user, loc.folderId, status, message) EXCEPT
                !.newName = loc.newName]
      \* the second loop goes to its next folder
      nextFolder(l) ==
        LET rest == [l EXCEPT !.nested = Tail(@), !.nestedFiles = <<>>]
        IN  Await(i, IF rest.nested # <<>> THEN "nested.update" ELSE "folders.update",
                  rest)
      \* the loop over the files of a nested folder goes to its next file
      nextNestedFile(l) ==
        LET rest == [l EXCEPT !.nestedFiles = Tail(@)]
        IN  IF rest.nestedFiles # <<>> THEN Await(i, "nested.move", rest)
            ELSE nextFolder(rest)
      \* the first loop goes to its next file, or the second loop starts
      nextFile(l) ==
        Await(i, IF l.direct # <<>> THEN "file.move"
                 ELSE IF l.nested # <<>> THEN "nested.update"
                 ELSE "folders.update", l)
      start ==
        /\ UNCHANGED <<storage, files, folders>>
        /\ IF ~folderId.some \/ ~Truthy(newName)
           THEN Answer(i, reply(400, "Folder ID and new name are required"))
           ELSE Await(i, "folders.select",
                      [folderId |-> folderId, newName |-> newName,
                       sanitizedName |-> Sanitize(newName.val)])
      selected ==
        LET found == Single(FindRow(folders, loc.folderId.val, user), fail)
            oldPath == found.data.path
        IN  /\ UNCHANGED <<storage, files, folders>>
            /\ IF found.error THEN Answer(i, reply(404, "Folder not found"))
               ELSE Await(i, "folders.check",
                          [folderId |-> loc.folderId, newName |-> loc.newName,
                           sanitizedName |-> loc.sanitizedName,
                           folderData |-> found.data, oldPath |-> oldPath,
                           parentPath |-> ParentPath(oldPath),
                           newPath |-> ParentPath(oldPath) \o <<"/">> \o loc.sanitizedName,
                           direct |-> <<>>, nested |-> <<>>, nestedFiles |-> <<>>])
      checked ==
        LET existingFolders ==
              IF fail THEN {}
              ELSE ExistingFolders(folders, user, loc.folderId.val, loc.parentPath)
        IN  /\ UNCHANGED <<storage, files, folders>>
            /\ IF FolderExists(existingFolders, loc.sanitizedName)
               THEN Answer(i, reply(400,
                      "A folder with this name already exists (case insensitive)"))
               ELSE Await(i, "files.select", loc)
      filesSelected ==
        LET filesInFolder ==
              {r \in files : r.folder_id.some /\ r.folder_id.val = loc.folderId.val}
        IN  /\ UNCHANGED <<storage, files, folders>>
            /\ IF fail THEN Answer(i, reply(500, "Failed to find files in folder"))
               ELSE \E direct \in Orders(filesInFolder) :
                      Await(i, "nested.select", [loc EXCEPT !.direct = direct])
      nestedSelected ==
        LET nestedFolders ==
              {f \in folders : /\ f.id # loc.folderId.val
                               /\ Like(f.path, loc.oldPath \o <<"/", "%">>, TRUE)}
        IN  /\ UNCHANGED <<storage, files, folders>>
            /\ IF fail THEN Answer(i, reply(500, "Failed to find nested folders"))
               ELSE \E nested \in Orders(nestedFolders) :
                      nextFile([loc EXCEPT !.nested = nested])
      fileMoved ==
        LET file == Head(loc.direct)
            filePathParts == Split(file.path, "/")
            newFilePath == loc.newPath \o <<"/">> \o filePathParts[Len(filePathParts)]
            to == StorageMove(storage, file.path, newFilePath, fail)
        IN  /\ UNCHANGED <<files, folders>>
            /\ IF to.error
               THEN /\ UNCHANGED storage
                    /\ Answer(i, [reply(500, "Failed to move file") EXCEPT
                                    !.filename = file.originalname])
               ELSE /\ storage' = to.bucket
                    /\ Await(i, "file.update", loc)
      fileUpdated ==
        LET file == Head(loc.direct)
            filePathParts == Split(file.path, "/")
            newFilePath == loc.newPath \o <<"/">> \o filePathParts[Len(filePathParts)]
        IN  /\ UNCHANGED <<storage, folders>>
            /\ IF fail
               THEN /\ UNCHANGED files
                    /\ Answer(i, [reply(500, "Failed to update file record") EXCEPT
                                    !.filename = file.originalname])
               ELSE /\ files' = Repath(files, file.id, newFilePath)
                    /\ nextFile([loc EXCEPT !.direct = Tail(@)])
      nestedUpdated ==
        LET folder == Head(loc.nested)
            newNestedPath == Replace(folder.path, loc.oldPath, loc.newPath)
        IN  /\ UNCHANGED <<storage, files>>
            /\ IF fail
               THEN /\ UNCHANGED folders
                    /\ Answer(i, [reply(500, "Failed to update nested folder") EXCEPT
                                    !.filename = folder.name])
               ELSE /\ folders' = {IF f.id = folder.id
                                   THEN [f EXCEPT !.path = newNestedPath] ELSE f :
                                     f \in folders}
                    /\ Await(i, "nested.files", loc)
      nestedFilesSelected ==
        LET folder == Head(loc.nested)
            nestedFiles ==
              {r \in files : r.folder_id.some /\ r.folder_id.val = folder.id}
        IN  /\ UNCHANGED <<storage, files, folders>>
            /\ IF fail \/ nestedFiles = {} THEN nextFolder(loc)
               ELSE \E q \in Orders(nestedFiles) :
                      Await(i, "nested.move", [loc EXCEPT !.nestedFiles = q])
      nestedFileMoved ==
        LET file == Head(loc.nestedFiles)
            newFilePath == Replace(file.path, loc.oldPath, loc.newPath)
            to == StorageMove(storage, file.path, newFilePath, fail)
        IN  /\ UNCHANGED <<files, folders>>
            /\ IF to.error
               THEN /\ UNCHANGED storage
                    /\ nextNestedFile(loc)
               ELSE /\ storage' = to.bucket
                    /\ Await(i, "nested.fileUpdate", loc)
      nestedFileUpdated ==
        LET file == Head(loc.nestedFiles)
            newFilePath == Replace(file.path, loc.oldPath, loc.newPath)
        IN  /\ UNCHANGED <<storage, folders>>
            /\ files' = IF fail THEN files ELSE Repath(files, file.id, newFilePath)
            /\ nextNestedFile(loc)
      updated ==
        /\ UNCHANGED <<storage, files>>
        /\ IF fail
           THEN /\ UNCHANGED folders
                /\ Answer(i, [reply(500, "Failed to update folder") EXCEPT
                                !.path = loc.newPath, !.rows = {loc.folderData}])
           ELSE /\ folders' = {IF f.id = loc.folderId.val
                               THEN [f EXCEPT !.name = loc.sanitizedName,
                                              !.path = loc.newPath]
                               ELSE f : f \in folders}
                /\ Answer(i, [reply(200, "Folder name updated successfully") EXCEPT
                                !.path = loc.newPath, !.rows = {loc.folderData}])
  IN  /\ UNCHANGED <<nextId, nextFolderId, now, uploads>>
      /\ CASE reqs[i].stage = "handler" -> start
           [] reqs[i].stage = "folders.select" -> selected
           [] reqs[i].stage = "folders.check" -> checked
           [] reqs[i].stage = "files.select" -> filesSelected
           [] reqs[i].stage = "nested.select" -> nestedSelected
           [] reqs[i].stage = "file.move" -> fileMoved
           [] reqs[i].stage = "file.update" -> fileUpdated
           [] reqs[i].stage = "nested.update" -> nestedUpdated
           [] reqs[i].stage = "nested.files" -> nestedFilesSelected
           [] reqs[i].stage = "nested.move" -> nestedFileMoved
           [] reqs[i].stage = "nested.fileUpdate" -> nestedFileUpdated
           [] reqs[i].stage = "folders.update" -> updated

\* deleteFolder, one step of request i: req.body.folderId (may be absent) at
\* the start
deleteFolder(i, folderId, fail) ==
  LET user == reqs[i].user.val
      loc == reqs[i].loc
      reply(status, message) ==
        IF reqs[i].stage \in {"handler", "folders.select"}
        THEN Json("deleteFolder", user,
                  IF reqs[i].stage = "handler" THEN folderId ELSE loc.folderId,
                  status, message)
        ELSE [Json("deleteFolder", user, loc.folderId, status, message) EXCEPT
                !.path = loc.folderPath, !.rows = loc.filesData]
      \* what follows the files: the nested folders, then the folder itself
      foldersNext(l) ==
        Await(i, IF l.nested # {} THEN "nested.delete" ELSE "folders.delete", l)
      start ==
        /\ UNCHANGED <<storage, files, folders>>
        /\ IF ~folderId.some THEN Answer(i, reply(400, "Folder ID is required"))
           ELSE Await(i, "folders.select", [folderId |-> folderId])
      selected ==
        LET found == Single(FindRow(folders, loc.folderId.val, user), fail)
        IN  /\ UNCHANGED <<storage, files, folders>>
            /\ IF found.error THEN Answer(i, reply(404, "Folder not found"))
               ELSE Await(i, "nested.select",
                          [folderId |-> loc.folderId, folderPath |-> found.data.path,
                           nested |-> {}, allFolderIds |-> {loc.folderId.val},
                           filesData |-> {}])
      nestedSelected ==
        LET nestedFolders ==
              {f \in folders : /\ f.id # loc.folderId.val
                               /\ Like(f.path, loc.folderPath \o <<"/", "%">>, TRUE)}
            ids == {f.id : f \in nestedFolders}
        IN  /\ UNCHANGED <<storage, files, folders>>
            /\ IF fail THEN Answer(i, reply(500, "Failed to find nested folders"))
               ELSE Await(i, "files.select",
                          [loc EXCEPT !.nested = ids,
                                      !.allFolderIds = {loc.folderId.val} \cup ids])
      filesSelected ==
        LET filesData ==
              {r \in files : r.folder_id.some /\ r.folder_id.val \in loc.allFolderIds}
        IN  /\ UNCHANGED <<storage, files, folders>>
            /\ IF fail THEN Answer(i, reply(500, "Failed to find files in folders"))
               ELSE IF filesData # {}
               THEN Await(i, "storage.remove", [loc EXCEPT !.filesData = filesData])
               ELSE foldersNext(loc)
      removed ==
        LET filePaths == {r.path : r \in loc.filesData}
        IN  /\ UNCHANGED <<files, folders>>
            /\ IF fail
               THEN /\ UNCHANGED storage
                    /\ Answer(i, reply(500, "Failed to delete files from storage"))
               ELSE /\ storage' = [p \in DOMAIN storage \ filePaths |-> storage[p]]
                    /\ Await(i, "files.delete", loc)
      filesDeleted ==
        /\ UNCHANGED <<storage, folders>>
        /\ IF fail
           THEN /\ UNCHANGED files
                /\ Answer(i, reply(500, "Failed to delete file records"))
           ELSE /\ files' = {r \in files :
                               ~(r.folder_id.some /\ r.folder_id.val \in loc.allFolderIds)}
                /\ foldersNext(loc)
      nestedDeleted ==
        /\ UNCHANGED <<storage, files>>
        /\ IF fail
           THEN /\ UNCHANGED folders
                /\ Answer(i, reply(500, "Failed to delete nested folders"))
           ELSE /\ folders' = {f \in folders : f.id \notin loc.nested}
                /\ Await(i, "folders.delete", loc)
      deleted ==
        /\ UNCHANGED <<storage, files>>
        /\ IF fail
           THEN /\ UNCHANGED folders
                /\ Answer(i, reply(500, "Failed to delete folder"))
           ELSE /\ folders' = {f \in folders : f.id # loc.folderId.val}
                /\ Answer(i, reply(200, "Folder and all contents deleted successfully"))
  IN  /\ UNCHANGED <<nextId, nextFolderId, now, uploads>>
      /\ CASE reqs[i].stage = "handler" -> start
           [] reqs[i].stage = "folders.select" -> selected
           [] reqs[i].stage = "nested.select" -> nestedSelected
           [] reqs[i].stage = "files.select" -> filesSelected
           [] reqs[i].stage = "storage.remove" -> removed
           [] reqs[i].stage = "files.delete" -> filesDeleted
           [] reqs[i].stage = "nested.delete" -> nestedDeleted
           [] reqs[i].stage = "folders.delete" -> deleted

\* listFolders, one step of request i: the rows of the user, or an error
listFolders(i, fail) ==
  LET user == reqs[i].user.val
  IN  /\ UNCHANGED <<storeVars, now, uploads>>
      /\ IF reqs[i].stage = "handler" THEN Await(i, "folders.select", <<>>)
         ELSE IF fail
         THEN Answer(i, Json("listFolders", user, NoId, 500, "Failed to fetch folders"))
         ELSE Answer(i, [Json("listFolders", user, NoId, 200, "") EXCEPT
                           !.rows = {f \in folders : f.user_id = user}])

\* listFiles, one step of request i: the rows of the user, or an error
listFiles(i, fail) ==
  LET user == reqs[i].user.val
  IN  /\ UNCHANGED <<storeVars, now, uploads>>
      /\ IF reqs[i].stage = "handler" THEN Await(i, "files.select", <<>>)
         ELSE IF fail
         THEN Answer(i, Json("listFiles", user, NoId, 500, "Failed to fetch files"))
         ELSE Answer(i, [Json("listFiles", user, NoId, 200, "") EXCEPT
                           !.rows = {f \in files : f.user_id = user}])

(***************************************************************************)
(* Requests, and what the bucket and the tables hold at the start          *)
(***************************************************************************)
\* how many requests a run answers
MaxRequests == 2

\* the latest time the clock shows
MaxNow == 1

\* the users a verified token stands for (req.user.id)
UserU == <<"u">>
UserV == <<"v">>
UserW == <<"w">>
Users == {UserU, UserV}

\* req.file as multer hands it over: "hello world" as a.txt, nothing as b
FileA == [buffer |-> HelloWorld, originalname |-> <<"a", ".", "t", "x", "t">>,
          mimetype |-> "text/plain", size |-> 11]
FileB == [buffer |-> <<>>, originalname |-> <<"b">>,
          mimetype |-> "application/octet-stream", size |-> 0]
NoFile == [some |-> FALSE, val |-> FileB]

\* the upload requests made: by u, a.txt into no folder and into folder 1, and
\* no file at all; by v, b into no folder, and a.txt into folder 1
UploadRequests ==
  { [user |-> <<"u">>, file |-> Some(FileA), folderId |-> NoId],
    [user |-> <<"u">>, file |-> Some(FileA), folderId |-> Some(1)],
    [user |-> <<"u">>, file |-> NoFile, folderId |-> NoId],
    [user |-> <<"v">>, file |-> Some(FileB), folderId |-> NoId],
    [user |-> <<"v">>, file |-> Some(FileA), folderId |-> Some(1)],
    [user |-> <<"w">>, file |-> Some(FileB), folderId |-> NoId] }

\* what crypto.randomBytes(16) returns in an upload
UploadDraws == {[i \in 1..16 |-> i - 1]}

NewNames == {Null, Some(<<"x">>)}

\* the one folder there is: d, of user u
FolderD == [id |-> 1, user_id |-> UserU, name |-> <<"d">>, path |-> <<"u", "/", "d">>]

\* a row written before this run, of user u, and the bytes stored under its path
OldPath == <<"u", "/", "0", "-", "o", ".", "t", "x", "t">>
OldBlob == <<142, 163, 254, 204, 167, 93, 169, 122, 178, 226, 136>>
OldRow(is_encrypted, iv, auth_tag) ==
  [id |-> 1, user_id |-> UserU,
   originalname |-> <<"o", ".", "t", "x", "t">>,
   filename |-> <<"0", "-", "o", ".", "t", "x", "t">>,
   path |-> OldPath, mimetype |-> "text/plain", size |-> 11,
   url |-> Some(PublicUrl(OldPath)),
   iv |-> iv, auth_tag |-> auth_tag, is_encrypted |-> is_encrypted,
   folder_id |-> NoId]

OldIv == ToHex([i \in 1..16 |-> 16 * i - 1])
OldTag == ToHex([i \in 1..16 |-> 7 * i])

\* the rows there may be at the start: none; one stored before files were
\* encrypted; one marked encrypted that has no nonce; one marked encrypted that
\* has no tag; one whose bytes are not what its nonce and tag were computed for
OldRows ==
  { OldRow(FALSE, Null, Null),
    OldRow(TRUE, Null, Some(OldTag)),
    OldRow(TRUE, Some(OldIv), Null),
    OldRow(TRUE, Some(OldIv), Some(OldTag)) }

Init ==
  /\ env = Some(Key32)
  /\ loaded = "no"
  /\ ENCRYPTION_KEY = Null
  /\ seals = <<>>
  /\ opened = NoCall
  /\ folders = {FolderD}
  /\ nextFolderId = 2
  /\ \/ /\ files = {}
        /\ storage = EmptyBucket
        /\ nextId = 1
     \/ /\ \E r \in OldRows : files = {r}
        /\ storage = (OldPath :> OldBlob)
        /\ nextId = 2
  /\ now = 0
  /\ served = 0
  /\ uploads = <<>>
  /\ last = Idle
  /\ reqs = <<>>
  /\ flights = <<>>
  /\ slots = <<>>
  /\ session = Null
  /\ accounts = Accounts
  /\ dotfile = Null
  /\ boot = "start"

\* the requests that have come in and have not been answered
InFlight == {i \in DOMAIN reqs : reqs[i] # NoReq}

\* the server is up and takes another request
Serving == loaded = "yes" /\ last = Idle /\ served + Cardinality(InFlight) < MaxRequests

\* the Authorization headers requests come with: none, the token of u, the
\* token of v, a token the auth provider does not know, a token with no scheme
\* in front of it, a scheme with no token after it
AuthHeaders ==
  { Null,
    Some(<<"B", "e", "a", "r", "e", "r", " ", "t", "u">>),
    Some(<<"B", "e", "a", "r", "e", "r", " ", "t", "v">>),
    Some(<<"B", "e", "a", "r", "e", "r", " ", "z", "z">>),
    Some(<<"t", "u">>),
    Some(<<"B", "e", "a", "r", "e", "r">>) }

\* supabase.auth.signUp({email, password}), of a project that asks for no
\* confirmation of the address: an error when the address has an account, else
\* the account is made and the client keeps the session of the new user
SignUpWithPassword(email, password) ==
  IF email \in DOMAIN accounts
  THEN [error |-> TRUE, accounts |-> accounts, session |-> session]
  ELSE [error |-> FALSE, accounts |-> (email :> password) @@ accounts,
        session |-> Some(CHOOSE t \in DOMAIN Sessions : Sessions[t] = email)]

\* supabase.auth.signInWithPassword({email, password}): an error, or a session
\* with the user's access token, which the client keeps as its session
SignInWithPassword(email, password) ==
  IF email \in DOMAIN accounts /\ accounts[email] = password
  THEN [error |-> FALSE,
        session |-> Some(CHOOSE t \in DOMAIN Sessions : Sessions[t] = email)]
  ELSE [error |-> TRUE, session |-> Null]

\* supabase.auth.refreshSession({refresh_token}): an error with the auth
\* provider's text, or a new session of the user the refresh token was given
\* to, which the client keeps
RefreshSession(refresh_token) ==
  IF refresh_token \in DOMAIN Refreshers
  THEN [error |-> FALSE, message |-> "",
        session |-> Some(CHOOSE t \in DOMAIN Sessions :
                           Sessions[t] = Refreshers[refresh_token])]
  ELSE [error |-> TRUE, message |-> "Invalid Refresh Token", session |-> Null]

\* AuthController.createUser, one step of request i: req.body.email and
\* req.body.password (may be absent) when the request comes in, which is when i
\* is not a request yet; the route has no middleware in front of its handler
createUser(i, email, password) ==
  LET reply(status, message) == Json("createUser", <<>>, NoId, status, message)
      start ==
        /\ UNCHANGED <<session, accounts>>
        /\ IF ~Truthy(email) \/ ~Truthy(password)
           THEN /\ Reply(reply(400, "Email and password are required."))
                /\ UNCHANGED reqs
           ELSE /\ reqs' = Append(reqs, [stage |-> "auth.signUp", route |-> "POST /signUp",
                                         authorization |-> Null, user |-> Null,
                                         loc |-> [email |-> email.val,
                                                  password |-> password.val]])
                /\ UNCHANGED <<last, served>>
      signedUp ==
        LET got == SignUpWithPassword(reqs[i].loc.email, reqs[i].loc.password)
        IN  /\ accounts' = got.accounts
            /\ session' = got.session
            /\ IF got.error THEN Answer(i, reply(400, "User already registered"))
               ELSE Await(i, "auth.signInWithPassword", reqs[i].loc)
      signedIn ==
        LET got == SignInWithPassword(reqs[i].loc.email, reqs[i].loc.password)
        IN  /\ UNCHANGED accounts
            /\ IF got.error
               THEN /\ UNCHANGED session
                    /\ Answer(i, reply(400, "Invalid login credentials"))
               ELSE /\ session' = got.session
                    /\ Answer(i, [reply(201, "") EXCEPT !.user = reqs[i].loc.email])
  IN  IF i \notin DOMAIN reqs THEN start
      ELSE IF reqs[i].stage = "auth.signUp" THEN signedUp
      ELSE signedIn

\* AuthController.signIn, one step of request i: req.body.email and
\* req.body.password (may be absent) when the request comes in, which is when i
\* is not a request yet; its one awaited call is signInWithPassword
signIn(i, email, password) ==
  LET reply(status, message) == Json("signIn", <<>>, NoId, status, message)
      start ==
        /\ UNCHANGED session
        /\ IF ~Truthy(email) \/ ~Truthy(password)
           THEN /\ Reply(reply(400, "Email and password are required."))
                /\ UNCHANGED reqs
           ELSE /\ reqs' = Append(reqs, [stage |-> "auth.signInWithPassword",
                                         route |-> "POST /signIn",
                                         authorization |-> Null, user |-> Null,
                                         loc |-> [email |-> email.val,
                                                  password |-> password.val]])
                /\ UNCHANGED <<last, served>>
      signedIn ==
        LET got == SignInWithPassword(reqs[i].loc.email, reqs[i].loc.password)
        IN  IF got.error
            THEN /\ UNCHANGED session
                 /\ Answer(i, reply(400, "Invalid login credentials"))
            ELSE /\ session' = got.session
                 /\ Answer(i, [reply(200, "") EXCEPT !.user = reqs[i].loc.email])
  IN  IF i \notin DOMAIN reqs THEN start ELSE signedIn

\* AuthController.refreshToken, one step of request i: req.body.refreshToken
\* (may be absent) when the request comes in; its one awaited call is
\* refreshSession
refreshToken(i, refresh_token) ==
  LET reply(status, message) == Json("refreshToken", <<>>, NoId, status, message)
      start ==
        /\ UNCHANGED session
        /\ IF ~Truthy(refresh_token)
           THEN /\ Reply(reply(400, "Refresh token is required."))
                /\ UNCHANGED reqs
           ELSE /\ reqs' = Append(reqs, [stage |-> "auth.refreshSession",
                                         route |-> "POST /refresh",
                                         authorization |-> Null, user |-> Null,
                                         loc |-> [refreshToken |-> refresh_token.val]])
                /\ UNCHANGED <<last, served>>
      refreshed ==
        LET got == RefreshSession(reqs[i].loc.refreshToken)
        IN  IF got.error \/ ~got.session.some
            THEN /\ UNCHANGED session
                 /\ Answer(i, reply(401, IF got.error THEN got.message
                                         ELSE "Failed to refresh token"))
            ELSE /\ session' = got.session
                 /\ Answer(i, [reply(200, "") EXCEPT
                                 !.user = Sessions[got.session.val]])
  IN  IF i \notin DOMAIN reqs THEN start ELSE refreshed

\* the bodies POST /api/user/signUp comes with: the address of w, who has no
\* account, without and with a password, and the address of u, who has one
NewUsers ==
  { [email |-> Some(UserW), password |-> Null],
    [email |-> Some(UserW), password |-> Some(<<"p">>)],
    [email |-> Some(UserU), password |-> Some(<<"p">>)] }

\* the bodies POST /api/user/signIn comes with: no password, the password of
\* u, another password
Credentials ==
  {[email |-> Some(<<"u">>), password |-> pw] : pw \in {Null, Some(<<"p">>), Some(<<"q">>)}}

\* the bodies POST /api/user/refresh comes with: no refresh token, the one u
\* was given, one the auth provider does not know
RefreshTokens == {Null, Some(<<"r", "u">>), Some(<<"z", "z">>)}

\* a step of a request on the sign-up route of the auth router
SignUp ==
  /\ last = Idle
  /\ \/ /\ Serving
        /\ \E body \in NewUsers : createUser(Len(reqs) + 1, body.email, body.password)
     \/ \E i \in DOMAIN reqs :
          /\ reqs[i].stage # "none"
          /\ reqs[i].route = "POST /signUp"
          /\ createUser(i, Null, Null)
  /\ UNCHANGED <<env, loaded, ENCRYPTION_KEY, dotfile, boot, callVars, storeVars,
                 now, uploads>>

\* a step of a request on the sign-in route of the auth router, which has no
\* middleware in front of its handler
SignIn ==
  /\ last = Idle
  /\ \/ /\ Serving
        /\ \E body \in Credentials : signIn(Len(reqs) + 1, body.email, body.password)
     \/ \E i \in DOMAIN reqs :
          /\ reqs[i].stage # "none"
          /\ reqs[i].route = "POST /signIn"
          /\ signIn(i, Null, Null)
  /\ UNCHANGED <<env, loaded, ENCRYPTION_KEY, accounts, dotfile, boot, callVars,
                 storeVars, now, uploads>>

\* a step of a request on the refresh route of the auth router
Refresh ==
  /\ last = Idle
  /\ \/ /\ Serving
        /\ \E refresh_token \in RefreshTokens : refreshToken(Len(reqs) + 1, refresh_token)
     \/ \E i \in DOMAIN reqs :
          /\ reqs[i].stage # "none"
          /\ reqs[i].route = "POST /refresh"
          /\ refreshToken(i, Null)
  /\ UNCHANGED <<env, loaded, ENCRYPTION_KEY, accounts, dotfile, boot, callVars,
                 storeVars, now, uploads>>

\* a request comes in on a route of the file router; verifyToken is first
Arrive ==
  /\ Serving
  /\ \E route \in DOMAIN Routes, authorization \in AuthHeaders :
       reqs' = Append(reqs, [stage |-> "verifyToken", route |-> route,
                             authorization |-> authorization, user |-> Null,
                             loc |-> <<>>])
  /\ UNCHANGED <<codecVars, callVars, storeVars, now, served, uploads, last>>

\* supabase.auth.getUser has answered a request's verifyToken: it answers 401,
\* or sets req.user and calls next
VerifyToken ==
  \E i \in DOMAIN reqs :
    /\ last = Idle
    /\ reqs[i].stage = "verifyToken"
    /\ LET v == verifyToken(reqs[i].authorization)
       IN  IF v.next
           THEN /\ reqs' = [reqs EXCEPT ![i] = [@ EXCEPT !.stage = "handler",
                                                         !.user = v.user]]
                /\ UNCHANGED <<last, served>>
           ELSE Answer(i, Json("verifyToken", <<>>, NoId, v.status, v.message))
    /\ UNCHANGED <<codecVars, callVars, storeVars, now, uploads>>

\* the handler of route has been called for request i and has not returned
Handling(i, route) ==
  /\ last = Idle
  /\ reqs[i].stage \notin {"none", "verifyToken"}
  /\ reqs[i].route = route

\* whether the call a handler waits for answers with an error; absent at the
\* start of a handler and where it waits for bytes it has fetched already
Fails(i) == IF reqs[i].stage \in {"handler", "arrayBuffer"} THEN {FALSE} ELSE BOOLEAN

Clocks == {t \in {now, now + 1} : t <= MaxNow}
FileIds == {NoId} \cup {Some(k) : k \in 1..nextId}
FolderIds == {NoId} \cup {Some(k) : k \in 1..nextFolderId}

\* the names req.body.name comes with: none, D, e followed by a dot, a dot
FolderNames == {Null, Some(<<"D">>), Some(<<"e", ".">>), Some(<<".">>)}

\* a step of an upload request
Upload ==
  \E i \in DOMAIN reqs :
    /\ Handling(i, "POST /upload")
    /\ IF reqs[i].stage = "handler"
       THEN \E r \in UploadRequests, rnd \in UploadDraws :
              /\ r.user = reqs[i].user.val
              /\ \E sealed \in {encryptFile(r.file.val.buffer, rnd)} :
                   \E clock \in Clocks :
                     uploadFile(i, r.file, r.folderId, sealed, clock, FALSE)
       ELSE \E fail \in Fails(i) : uploadFile(i, NoFile, NoId, Threw, now, fail)
    /\ UNCHANGED <<codecVars, callVars>>

\* a step of a download request
Download ==
  \E i \in DOMAIN reqs :
    /\ Handling(i, "POST /download")
    /\ \E fileId \in IF reqs[i].stage = "handler" THEN FileIds ELSE {NoId},
          fail \in Fails(i) :
         downloadFile(i, fileId, fail)
    /\ UNCHANGED <<codecVars, callVars>>

\* a step of a request to rename a file
Rename ==
  \E i \in DOMAIN reqs :
    /\ Handling(i, "PUT /update")
    /\ \E fileId \in IF reqs[i].stage = "handler" THEN FileIds ELSE {NoId},
          newName \in IF reqs[i].stage = "handler" THEN NewNames ELSE {Null},
          fail \in Fails(i) :
         updateFileName(i, fileId, newName, fail)
    /\ UNCHANGED <<codecVars, callVars>>

\* a step of a request to delete a file
Delete ==
  \E i \in DOMAIN reqs :
    /\ Handling(i, "DELETE /delete")
    /\ \E fileId \in IF reqs[i].stage = "handler" THEN FileIds ELSE {NoId},
          fail \in Fails(i) :
         deleteFile(i, fileId, fail)
    /\ UNCHANGED <<codecVars, callVars>>

\* a step of a request to make a folder
CreateFolder ==
  \E i \in DOMAIN reqs :
    /\ Handling(i, "POST /folders")
    /\ \E name \in IF reqs[i].stage = "handler" THEN FolderNames ELSE {Null},
          parentFolderId \in IF reqs[i].stage = "handler" THEN FolderIds ELSE {NoId},
          fail \in Fails(i) :
         createFolder(i, name, parentFolderId, fail)
    /\ UNCHANGED <<codecVars, callVars>>

\* a step of a request for the user's folders
ListFolders ==
  \E i \in DOMAIN reqs :
    /\ Handling(i, "GET /folders")
    /\ \E fail \in Fails(i) : listFolders(i, fail)
    /\ UNCHANGED <<codecVars, callVars>>

\* a step of a request for the user's files
ListFiles ==
  \E i \in DOMAIN reqs :
    /\ Handling(i, "GET /list")
    /\ \E fail \in Fails(i) : listFiles(i, fail)
    /\ UNCHANGED <<codecVars, callVars>>

\* the methods of the controller that no route of the file router leads to
Unrouted == {"updateFolderName", "deleteFolder"}

\* one of the methods is called with req.user set
Call(methods) ==
  /\ Serving
  /\ \E method \in methods, user \in Users :
       reqs' = Append(reqs, [stage |-> "handler", route |-> method,
                             authorization |-> Null, user |-> Some(user),
                             loc |-> <<>>])
  /\ UNCHANGED <<codecVars, callVars, storeVars, now, served, uploads, last>>

\* updateFolderName or deleteFolder is called
CallUnrouted == Call(Unrouted)

\* a step of a call of updateFolderName
RenameFolder ==
  \E i \in DOMAIN reqs :
    /\ Handling(i, "updateFolderName")
    /\ \E folderId \in IF reqs[i].stage = "handler" THEN FolderIds ELSE {NoId},
          newName \in IF reqs[i].stage = "handler" THEN FolderNames ELSE {Null},
          fail \in Fails(i) :
         updateFolderName(i, folderId, newName, fail)
    /\ UNCHANGED <<codecVars, callVars>>

\* a step of a call of deleteFolder
DeleteFolder ==
  \E i \in DOMAIN reqs :
    /\ Handling(i, "deleteFolder")
    /\ \E folderId \in IF reqs[i].stage = "handler" THEN FolderIds ELSE {NoId},
          fail \in Fails(i) :
         deleteFolder(i, folderId, fail)
    /\ UNCHANGED <<codecVars, callVars>>

\* the response has gone out
Finish ==
  /\ last # Idle
  /\ last' = Idle
  /\ UNCHANGED <<codecVars, callVars, storeVars, now, served, uploads, reqs>>

Next ==
  \/ LoadCodec
  \/ SignUp
  \/ SignIn
  \/ Refresh
  \/ Arrive
  \/ VerifyToken
  \/ Upload
  \/ Download
  \/ Rename
  \/ Delete
  \/ CreateFolder
  \/ ListFolders
  \/ ListFiles
  \/ CallUnrouted
  \/ RenameFolder
  \/ DeleteFolder
  \/ Finish

Spec == Init /\ [][Next]_vars

(***************************************************************************)
(* The controller's methods called on a tree of folders                    *)
(***************************************************************************)
\* folder e of user u, made inside d
FolderE == [id |-> 2, user_id |-> UserU, name |-> <<"e">>,
            path |-> <<"u", "/", "d", "/", "e">>]

\* the row uploadFile wrote for a.txt of user u, put into folder at time 0
TreeRow(id, folder, sealed) ==
  LET filename == <<"0", "-">> \o FileA.originalname
      path == folder.path \o <<"/">> \o filename
  IN  [id |-> id, user_id |-> UserU, originalname |-> FileA.originalname,
       filename |-> filename, path |-> path, mimetype |-> FileA.mimetype,
       size |-> FileA.size, url |-> Some(PublicUrl(path)), iv |-> Some(sealed.iv),
       auth_tag |-> Some(sealed.authTag), is_encrypted |-> TRUE,
       folder_id |-> Some(folder.id)]

\* u has folder d with folder e inside it, one uploaded file in d and one in e
InitTree ==
  /\ env = Some(Key32)
  /\ loaded = "yes"
  /\ ENCRYPTION_KEY = Some(Key32)
  /\ seals = <<>>
  /\ opened = NoCall
  /\ flights = <<>>
  /\ slots = <<>>
  /\ session = Null
  /\ accounts = Accounts
  /\ dotfile = Null
  /\ boot = "start"
  /\ folders = {FolderD, FolderE}
  /\ nextFolderId = 3
  /\ files = {TreeRow(1, FolderD, TreeSealed[1]), TreeRow(2, FolderE, TreeSealed[2])}
  /\ storage = (TreeRow(1, FolderD, TreeSealed[1]).path :> TreeSealed[1].encryptedData)
                 @@ (TreeRow(2, FolderE, TreeSealed[2]).path :> TreeSealed[2].encryptedData)
  /\ uploads = (1 :> [user |-> UserU, file |-> FileA, sealed |-> TreeSealed[1]])
                 @@ (2 :> [user |-> UserU, file |-> FileA, sealed |-> TreeSealed[2]])
  /\ nextId = 3
  /\ now = 0
  /\ served = 0
  /\ last = Idle
  /\ reqs = <<>>

\* the methods of the controller that are called
TreeCalls == DOMAIN Routes \cup Unrouted

\* a method of the controller is called with req.user set
Invoke == Call(TreeCalls)

NextTree ==
  \/ Invoke
  \/ CreateFolder
  \/ ListFolders
  \/ ListFiles
  \/ Upload
  \/ Download
  \/ Rename
  \/ Delete
  \/ RenameFolder
  \/ DeleteFolder
  \/ Finish

SpecTree == InitTree /\ [][NextTree]_vars
(***************************************************************************)
(* The controller's contract                                               *)
(***************************************************************************)
\* the row a file request names, whoever owns it
Named(reply) == {r \in files : reply.fileId.some /\ r.id = reply.fileId.val}

\* request i takes a step in the handler of one of the routes
Steps(i, routes) ==
  /\ reqs[i].stage \notin {"none", "verifyToken"}
  /\ reqs[i].route \in routes
  /\ reqs'[i] # reqs[i]

\* C3: when decryptFile throws for an encrypted record, downloadFile answers
\* 500 'Failed to decrypt file', sends no file bytes, has called decryptFile
\* once in that request, and does not send the bytes as stored.
FailClosed ==
  (last.op = "download" /\ last.decryptThrew) =>
    /\ last.status = 500
    /\ last.message = "Failed to decrypt file"
    /\ last.body = Null
    /\ last.decryptCalls = 1

\* the stored bytes of the old record were fetched, and opening them threw
FailClosedSeen ==
  /\ last.op = "download"
  /\ last.decryptThrew
  /\ last.fetched = Some(OldBlob)
  /\ last.status = 500

\* C4 as stated: the stored bytes of a record marked is_encrypted = true that
\* has no nonce or no tag are never sent: its owner's download is rejected.
HalfSealedRejected ==
  (/\ last.op = "download"
   /\ \E r \in last.rows :
        /\ r.user_id = last.user
        /\ r.is_encrypted
        /\ ~Truthy(r.iv) \/ ~Truthy(r.auth_tag))
  => last.body = Null /\ last.status # 200

\* C8: a download by u that names a file u uploaded, when it answers 200,
\* carries exactly the bytes uploaded, the MIME type stored and the original
\* filename; it sends bytes in no other case; and it does answer 200 whenever
\* the bytes it fetched from storage are those the upload wrote.
EndToEnd ==
  (/\ last.op = "download"
   /\ last.fileId.some
   /\ last.fileId.val \in DOMAIN uploads
   /\ uploads[last.fileId.val].user = last.user)
  => LET up == uploads[last.fileId.val]
     IN  /\ last.status = 200 =>
               /\ last.body = Some(up.file.buffer)
               /\ last.contentType = up.file.mimetype
               /\ last.filename = up.file.originalname
         /\ last.body # Null => last.status = 200
         /\ last.fetched = Some(up.sealed.encryptedData) => last.status = 200

\* u uploaded "hello world" as a.txt and has downloaded it
EndToEndSeen ==
  /\ last.op = "download"
  /\ last.user = UserU
  /\ last.fileId.some
  /\ last.fileId.val \in DOMAIN uploads
  /\ last.status = 200
  /\ last.body = Some(HelloWorld)
  /\ last.filename = FileA.originalname
  /\ last.fetched # Some(HelloWorld)

\* C9: in every uploadFile the object written under the file's path is the
\* ciphertext of the request's one encryptFile call, as long as the plaintext
\* uploaded and not the plaintext itself, and when the upload answers 200 the
\* row it has inserted holds that call's nonce and tag, each 16 bytes as 32
\* hex digits, and is_encrypted = true.
UploadShape ==
  [][ /\ \A i \in DOMAIN reqs :
           (Steps(i, {"POST /upload"}) /\ reqs'[i].stage = "files.insert") =>
             LET loc == reqs[i].loc
             IN  /\ loc.filePath \notin DOMAIN storage
                 /\ loc.filePath \in DOMAIN storage'
                 /\ storage'[loc.filePath] = loc.sealed.encryptedData
                 /\ Len(storage'[loc.filePath]) = Len(loc.file.buffer)
                 /\ storage'[loc.filePath] = loc.file.buffer => loc.file.buffer = <<>>
      /\ \A i \in DOMAIN reqs :
           (Steps(i, {"POST /upload"}) /\ last'.op = "upload" /\ last'.status = 200) =>
             LET loc == reqs[i].loc
             IN  /\ reqs[i].stage = "files.insert"
                 /\ last'.sealed = loc.sealed
                 /\ last'.path = loc.filePath
                 /\ uploads'[last'.fileId.val].sealed = loc.sealed
                 /\ uploads'[last'.fileId.val].file = loc.file
                 /\ \E r \in files' \ files :
                      /\ files' = files \cup {r}
                      /\ r.id = last'.fileId.val
                      /\ r.user_id = last'.user
                      /\ r.path = loc.filePath
                      /\ r.is_encrypted
                      /\ r.iv = Some(loc.sealed.iv)
                      /\ r.auth_tag = Some(loc.sealed.authTag)
                      /\ Len(r.iv.val) = 32 /\ Len(FromHex(r.iv.val)) = 16
                      /\ Len(r.auth_tag.val) = 32 /\ Len(FromHex(r.auth_tag.val)) = 16 ]_vars

\* "hello world" was uploaded, and 11 bytes that are not "hello world" are stored
UploadShapeSeen ==
  /\ last.op = "upload"
  /\ last.status = 200
  /\ last.path \in DOMAIN storage
  /\ Len(storage[last.path]) = 11
  /\ storage[last.path] # HelloWorld
  /\ uploads[last.fileId.val].file = FileA

\* a request that names a row of another user and has the fields its handler asks for
Foreign(reply) ==
  /\ reply.op \in {"download", "rename", "delete"}
  /\ reply.op = "rename" => Truthy(reply.newName)
  /\ \E r \in Named(reply) : r.user_id # reply.user

\* C10: downloadFile, updateFileName and deleteFile, asked by one user for a
\* file id that is another user's, answer 404 'File not found', send no bytes
\* and leave the bucket and the tables as they were.
OwnershipScoped ==
  [][ /\ (last = Idle /\ last' # Idle /\ Foreign(last')) =>
           /\ last'.status = 404
           /\ last'.message = "File not found"
           /\ last'.body = Null
           /\ storage' = storage
           /\ files' = files
           /\ folders' = folders
      /\ \A i \in DOMAIN reqs :
           (/\ Steps(i, {"POST /download", "PUT /update", "DELETE /delete"})
            /\ reqs[i].stage # "handler"
            /\ \E r \in files : r.id = reqs[i].loc.fileId.val /\ r.user_id # reqs[i].user.val)
           => /\ reqs[i].stage = "files.select"
              /\ reqs'[i] = NoReq
              /\ UNCHANGED <<storage, files, folders>> ]_vars

\* v asked to delete a file of u and was answered 404; the row is still there
OwnershipSeen ==
  /\ last.op = "delete"
  /\ last.user = UserV
  /\ last.status = 404
  /\ \E r \in Named(last) : r.user_id = UserU

(***************************************************************************)
(* The router's contract                                                   *)
(***************************************************************************)
\* the header holds a token, and the auth provider does not know that token
Rejected(authorization) ==
  LET token == TokenOf(authorization.val)
  IN  Truthy(token) /\ token.val \notin DOMAIN Sessions

\* C11: on every route of the file router the handler is called, and takes
\* any of its steps, only after verifyToken has called next for that same
\* request, with req.user the user the token stands for; a request with no
\* Authorization header, or with a token the auth provider rejects, is
\* answered 401, its handler is never run and nothing stored is changed.
AuthGate ==
  [][ /\ \A i \in DOMAIN reqs' :
           (/\ reqs'[i].stage \notin {"none", "verifyToken"}
            /\ reqs'[i].route \in DOMAIN Routes
            /\ i \in DOMAIN reqs => reqs[i].stage = "verifyToken") =>
             /\ i \in DOMAIN reqs
             /\ reqs'[i].stage = "handler"
             /\ reqs'[i].route = reqs[i].route
             /\ Truthy(reqs[i].authorization)
             /\ ~Rejected(reqs[i].authorization)
             /\ ~GetUser(TokenOf(reqs[i].authorization.val)).error
             /\ reqs'[i].user = GetUser(TokenOf(reqs[i].authorization.val)).user
      /\ (last = Idle /\ last' # Idle
            /\ last'.op \in {Routes[r] : r \in DOMAIN Routes}) =>
           \E i \in DOMAIN reqs :
             /\ Steps(i, DOMAIN Routes)
             /\ reqs'[i] = NoReq
             /\ last'.op = Routes[reqs[i].route]
             /\ last'.user = reqs[i].user.val
      /\ \A i \in DOMAIN reqs :
           (/\ reqs[i].stage = "verifyToken"
            /\ reqs'[i] # reqs[i]
            /\ ~Truthy(reqs[i].authorization) \/ Rejected(reqs[i].authorization)) =>
             /\ last'.op = "verifyToken"
             /\ last'.status = 401
             /\ reqs'[i] = NoReq
             /\ UNCHANGED <<storeVars, uploads>> ]_vars

\* after a request that changed what is stored, a request with a token the
\* auth provider does not know has been answered 401
AuthGateSeen ==
  /\ served = 2
  /\ last.op = "verifyToken"
  /\ last.status = 401
  /\ last.message = "Invalid or expired token"
  /\ files # {}
  /\ uploads # <<>>

(***************************************************************************)
(* Blobs and their records                                                 *)
(***************************************************************************)
\* C12: after any run of uploadFile, the blob it wrote to storage, if it is
\* there, has a file record with its path that holds the nonce and the tag
\* encryptFile returned for it.
BlobHasRecord ==
  (last.op = "upload" /\ last.path \in DOMAIN storage) =>
    \E r \in files :
      /\ r.path = last.path
      /\ r.iv = Some(last.sealed.iv)
      /\ r.auth_tag = Some(last.sealed.authTag)

\* C15: for a record with is_encrypted = false and no nonce and no tag,
\* downloadFile never calls decryptFile, and once it has the stored bytes it
\* answers 200 with exactly those bytes.
LegacyPassthrough ==
  last.op = "download" =>
    \A r \in last.rows :
      (r.user_id = last.user /\ ~r.is_encrypted /\ ~r.iv.some /\ ~r.auth_tag.some) =>
        /\ last.decryptCalls = 0
        /\ ~last.decryptThrew
        /\ last.status \in {200, 500}
        /\ last.status = 500 =>
             /\ last.message = "Failed to download file from storage"
             /\ last.fetched = Null
        /\ last.status = 200 =>
             /\ last.fetched # Null
             /\ last.body = last.fetched

\* the bytes stored before files were encrypted have been sent as they are
LegacySeen ==
  /\ last.op = "download"
  /\ last.status = 200
  /\ last.body = Some(OldBlob)
  /\ last.decryptCalls = 0
  /\ \E r \in last.rows : ~r.is_encrypted /\ ~r.iv.some /\ ~r.auth_tag.some

\* the path of the row is not the path an upload has written to and has not
\* answered for yet, or the path of another row
OwnPath(r) ==
  /\ \A j \in DOMAIN reqs :
       reqs[j].stage = "files.insert" => reqs[j].loc.filePath # r.path
  /\ \A x \in files : x.path = r.path => x.id = r.id

\* C13: when deleteFile or deleteFolder has answered, with success or with an
\* error, the blob of every file record it had read has been removed from
\* storage if and only if that record has been removed from the database.
BlobGoesWithRecord ==
  last.op \in {"delete", "deleteFolder"} =>
    \A r \in last.rows :
      OwnPath(r) => (r.path \notin DOMAIN storage <=> \A x \in files : x.id # r.id)

\* how many objects of a bucket hold the given bytes
Copies(bucket, bytes) == Cardinality({p \in DOMAIN bucket : bucket[p] = bytes})

\* C14: no step of updateFileName or updateFolderName changes anything of a
\* file record but its filename, path and url, or adds or removes a record;
\* the bucket holds the same blobs after the step, byte for byte, a record
\* whose path is changed finds under its new path the bytes that were sealed
\* for it, and no step of any handler changes the bytes stored under a path.
RenameKeepsBlob ==
  [][ /\ \A i \in DOMAIN reqs :
           Steps(i, {"PUT /update", "updateFolderName"}) =>
             /\ Cardinality(files') = Cardinality(files)
             /\ \A r \in files :
                  \E x \in files' :
                    /\ x.id = r.id
                    /\ x.iv = r.iv /\ x.auth_tag = r.auth_tag
                    /\ x.is_encrypted = r.is_encrypted /\ x.user_id = r.user_id
                    /\ [x EXCEPT !.filename = r.filename, !.path = r.path, !.url = r.url] = r
                    /\ x.path # r.path =>
                         /\ x.path \in DOMAIN storage'
                         /\ storage'[x.path] = uploads[x.id].sealed.encryptedData
             /\ Cardinality(DOMAIN storage') = Cardinality(DOMAIN storage)
             /\ \A p \in DOMAIN storage :
                  Copies(storage', storage[p]) = Copies(storage, storage[p])
      /\ \A p \in DOMAIN storage \cap DOMAIN storage' : storage'[p] = storage[p] ]_vars

\* a folder was renamed, and the file in the folder nested in it has its
\* sealed bytes, nonce and tag as they were, under a new path
RenameKeepsBlobSeen ==
  /\ last.op = "renameFolder"
  /\ last.status = 200
  /\ \E r \in files :
       /\ r.id = 2
       /\ r.path # TreeRow(2, FolderE, TreeSealed[2]).path
       /\ r.iv = Some(TreeSealed[2].iv)
       /\ r.auth_tag = Some(TreeSealed[2].authTag)
       /\ r.path \in DOMAIN storage
       /\ storage[r.path] = TreeSealed[2].encryptedData

(***************************************************************************)
(* Folders and what is in them                                             *)
(***************************************************************************)
\* text begins with prefix
StartsWith(text, prefix) ==
  Len(text) >= Len(prefix) /\ SubSeq(text, 1, Len(prefix)) = prefix

\* the folders whose path lies under the given path
Under(path) == {f \in folders : StartsWith(f.path, path \o <<"/">>)}

\* the file rows that belong to one of the folders
FilesOf(fs) == {r \in files : r.folder_id.some /\ r.folder_id.val \in {f.id : f \in fs}}

\* C19: whenever updateFolderName answers 200, every file in the renamed
\* folder or in a folder nested under it has a record path under the new
\* folder path with its blob stored at that path, and the path of every nested
\* folder starts with the new folder path: none is left under the old one.
FolderRenameMaintainsPaths ==
  (last.op = "renameFolder" /\ last.status = 200) =>
    /\ \A old \in last.rows : Under(old.path) = {}
    /\ \A r \in FilesOf({f \in folders : f.id = last.fileId.val} \cup Under(last.path)) :
         /\ StartsWith(r.path, last.path \o <<"/">>)
         /\ r.path \in DOMAIN storage
         /\ r.id \in DOMAIN uploads =>
              storage[r.path] = uploads[r.id].sealed.encryptedData

\* C20: whenever deleteFolder answers 200, the target folder, every folder
\* nested under it at any depth, every file record that belonged to one of
\* them and the blob of every such file no longer exist.
FolderDeleteRemovesAll ==
  (last.op = "deleteFolder" /\ last.status = 200) =>
    /\ \A f \in folders : f.id # last.fileId.val
    /\ Under(last.path) = {}
    /\ \A r \in files : ~(r.folder_id.some /\ r.folder_id.val = last.fileId.val)
    /\ \A r \in last.rows :
         /\ \A x \in files : x.id # r.id
         /\ r.id \in DOMAIN uploads =>
              Copies(storage, uploads[r.id].sealed.encryptedData) = 0

(***************************************************************************)
(* The key                                                                 *)
(***************************************************************************)
\* the calls that have made their cipher object, in the flights fs
Keyed(fs) == {c \in 1..Len(fs) : fs[c].pc \in {"cipher", "done"}}

\* C16: the key is the value the environment held when the module was loaded
\* and is never changed afterwards, whatever the environment holds later;
\* every encryptFile and decryptFile call gives createCipheriv or
\* createDecipheriv the first 32 bytes of that one value, whatever the call is
\* given.
OneKey ==
  [][ /\ loaded # "no" => (ENCRYPTION_KEY' = ENCRYPTION_KEY /\ loaded' = loaded)
      /\ (loaded = "no" /\ loaded' # "no") => ENCRYPTION_KEY' = env
      /\ \A c \in Keyed(flights') :
           flights'[c].key = Slice(Utf8(ENCRYPTION_KEY.val), 32)
      /\ \A c, d \in Keyed(flights') : flights'[c].key = flights'[d].key ]_vars

\* a seal and an open of different bytes have both made their cipher, the
\* second one after the environment was given another key than the one loaded
OneKeySeen ==
  /\ Len(flights) = 2
  /\ Keyed(flights) = {1, 2}
  /\ flights[1].kind = "seal" /\ flights[2].kind = "open"
  /\ flights[1].buffer # flights[2].buffer
  /\ env # ENCRYPTION_KEY
  /\ flights[2].key = Slice(Utf8(Key32), 32)

\* C17: two calls of encryptFile on different files use different keys.
PerFileKeys ==
  \A c, d \in Keyed(flights) :
    (/\ flights[c].kind = "seal" /\ flights[d].kind = "seal"
     /\ flights[c].buffer # flights[d].buffer) =>
      flights[c].key # flights[d].key

(***************************************************************************)
(* Folder names                                                            *)
(***************************************************************************)
\* C21: no user has two folders in the same parent folder whose names are
\* equal when letter case is ignored, however createFolder and
\* updateFolderName requests follow each other or overlap
SiblingNamesUnique ==
  \A f, g \in folders :
    (f.id # g.id /\ f.user_id = g.user_id /\ ParentPath(f.path) = ParentPath(g.path))
      => ToLowerCase(f.name) # ToLowerCase(g.name)

(***************************************************************************)
(* Record paths                                                            *)
(***************************************************************************)
\* C22: when no request is in flight, after any run of uploadFile,
\* updateFileName, updateFolderName and deleteFile, also one in which a
\* storage or database call fails part way, the path of every file record
\* names a blob that is in storage.
RecordPathsValid ==
  InFlight = {} => \A r \in files : r.path \in DOMAIN storage

\* C23: when no request is in flight, the path of every file record with a
\* folder_id is the path of that folder, '/' and the file's name, and the path
\* of every file record without one is the user id, '/' and the file's name;
\* uploadFile, updateFileName and updateFolderName keep it so.
FilesInsideFolder ==
  InFlight = {} =>
    \A r \in files :
      IF r.folder_id.some
      THEN \A f \in folders :
             f.id = r.folder_id.val => r.path = f.path \o <<"/">> \o r.filename
      ELSE r.path = r.user_id \o <<"/">> \o r.filename

(***************************************************************************)
(* The token of the request                                                *)
(***************************************************************************)
\* C24: verifyToken calls next only for a request whose own Authorization
\* header holds a token after its first space that the auth provider knows,
\* and req.user is then the user of that token; a header with no token after
\* a space is answered 401, whatever sign-in the shared client has done before.
TokenGate ==
  [][ \A i \in DOMAIN reqs :
        (reqs[i].stage = "verifyToken" /\ reqs'[i] # reqs[i]) =>
          LET token == IF Truthy(reqs[i].authorization)
                       THEN TokenOf(reqs[i].authorization.val) ELSE Null
          IN  /\ reqs'[i].stage = "handler" =>
                   /\ Truthy(token)
                   /\ token.val \in DOMAIN Sessions
                   /\ reqs'[i].user = Some(Sessions[token.val])
              /\ ~Truthy(token) =>
                   /\ reqs'[i] = NoReq
                   /\ last'.op = "verifyToken"
                   /\ last'.status = 401 ]_vars

(***************************************************************************)
(* What a folder request leaves alone                                      *)
(***************************************************************************)
\* C25: no step of deleteFolder or updateFolderName deletes or rewrites a
\* folder record, file record or blob other than those of the target folder
\* and of the folders nested under it; every other folder of the user, all it
\* holds, and all folders and files of other users are left as they are.
SubtreeOnly ==
  [][ \A i \in DOMAIN reqs :
        (/\ Steps(i, {"deleteFolder", "updateFolderName"})
         /\ reqs[i].stage \notin {"handler", "folders.select"}) =>
          LET loc == reqs[i].loc
              roots == IF reqs[i].route = "deleteFolder"
                       THEN {loc.folderPath} ELSE {loc.oldPath, loc.newPath}
              below(path) == \E q \in roots : StartsWith(path, q \o <<"/">>)
              subtree == {f \in folders :
                            /\ f.user_id = reqs[i].user.val
                            /\ f.id = loc.folderId.val \/ below(f.path)}
              inside == FilesOf(subtree)
          IN  /\ \A f \in folders \ subtree : f \in folders'
              /\ \A r \in files \ inside : r \in files'
              /\ \A p \in DOMAIN storage \ {r.path : r \in inside} :
                   below(p) \/ (p \in DOMAIN storage' /\ storage'[p] = storage[p]) ]_vars

(***************************************************************************)
(* The duplicate-name check                                                *)
(***************************************************************************)
\* C27: createFolder and updateFolderName answer that the name already exists
\* only when a folder with the same parent has the sanitized name, letter case
\* ignored; a folder of that name further down does not block the request.
SameLevelCheck ==
  [][ \A i \in DOMAIN reqs :
        (/\ Steps(i, {"POST /folders", "createFolder", "updateFolderName"})
         /\ last' # Idle
         /\ last'.status = 400
         /\ last'.message = "A folder with this name already exists (case insensitive)") =>
          LET loc == reqs[i].loc
          IN  /\ reqs[i].stage = "folders.check"
              /\ \E f \in folders :
                   /\ f.user_id = reqs[i].user.val
                   /\ reqs[i].route = "updateFolderName" => f.id # loc.folderId.val
                   /\ ParentPath(f.path) = loc.parentPath
                   /\ ToLowerCase(f.name) = ToLowerCase(loc.sanitizedName) ]_vars

(***************************************************************************)
(* The entry point: import './core/App', dotenv.config(), listen           *)
(***************************************************************************)
\* the process starts with ENCRYPTION_KEY set or not set in its environment,
\* and with a .env file that has a line for it or has none
InitStart ==
  /\ env \in EnvValues
  /\ dotfile \in EnvValues
  /\ boot = "start"
  /\ loaded = "no"
  /\ ENCRYPTION_KEY = Null
  /\ session = Null
  /\ accounts = Accounts
  /\ seals = <<>>
  /\ opened = NoCall
  /\ flights = <<>>
  /\ slots = <<>>
  /\ storage = EmptyBucket
  /\ files = {}
  /\ folders = {}
  /\ nextId = 1
  /\ nextFolderId = 1
  /\ now = 0
  /\ served = 0
  /\ uploads = <<>>
  /\ last = Idle
  /\ reqs = <<>>

\* line 1, import App from './core/App'. App imports the file routes first,
\* and these import the verifyToken middleware (FileRoutes.ts line 2), whose
\* line 2 imports utils/supabaseClient: that module is evaluated before any
\* other of the application. Its text is not among the sources, so what it
\* does to the environment is open: it loads the .env file itself (as
\* dotenv.config() does: only the variables the environment lacks are set) or
\* it leaves the environment as it is
ImportSupabaseClient ==
  /\ boot = "start"
  /\ loaded = "no"
  /\ \E loadsDotenv \in BOOLEAN :
       env' = IF loadsDotenv /\ ~env.some THEN dotfile ELSE env
  /\ boot' = "importing"
  /\ UNCHANGED <<loaded, ENCRYPTION_KEY, session, accounts, dotfile, callVars, ctrlVars>>

\* the import goes on: the file routes import the controller (FileRoutes.ts
\* line 3), the controller encryptionUtils (its line 5), which reads the key
ImportEncryptionUtils ==
  /\ boot = "importing"
  /\ LoadCodec

\* the import has thrown: the process ends with the uncaught error
Exit ==
  /\ boot = "importing"
  /\ loaded = "threw"
  /\ boot' = "exited"
  /\ UNCHANGED <<env, loaded, ENCRYPTION_KEY, session, accounts, dotfile, callVars, ctrlVars>>

\* line 4, dotenv.config(): the variables of the .env file that the
\* environment does not have yet are put into process.env
DotenvConfig ==
  /\ boot = "importing"
  /\ loaded = "yes"
  /\ env' = IF env.some THEN env ELSE dotfile
  /\ boot' = "configured"
  /\ UNCHANGED <<loaded, ENCRYPTION_KEY, session, accounts, dotfile, callVars, ctrlVars>>

\* lines 6 to 9: new App() and app.listen(PORT)
Listen ==
  /\ boot = "configured"
  /\ boot' = "listening"
  /\ UNCHANGED <<env, loaded, ENCRYPTION_KEY, session, accounts, dotfile, callVars, ctrlVars>>

NextStart ==
  \/ ImportSupabaseClient
  \/ ImportEncryptionUtils
  \/ Exit
  \/ DotenvConfig
  \/ Listen

SpecStart == InitStart /\ [][NextStart]_vars

\* the .env file has a key of at least 32 characters and the environment had
\* none when the codec module read it
KeyOnlyInDotfile ==
  /\ dotfile.some /\ Len(dotfile.val) >= 32
  /\ loaded # "no"
  /\ ~ENCRYPTION_KEY.some

\* the .env file has a key of at least 32 characters, the codec module read
\* that key and the service listens
KeyFromDotfile ==
  /\ dotfile.some /\ Len(dotfile.val) >= 32
  /\ boot = "listening"
  /\ ENCRYPTION_KEY = dotfile
====
